---- MODULE Spec2Model ----
(***************************************************************************)
(* Job dispatch and result normalisation of the quantum circuit execution  *)
(* service: the /execute endpoint (app/api/v1/circuits.py), the executors  *)
(* (app/services/circuit_executor.py) and the IBM hardware runner          *)
(* (app/services/hardware_runners/ibm_hardware_runner.py).                 *)
(*                                                                         *)
(* Python values are modelled as follows.  Optional[T] is a sequence of    *)
(* length at most one (None == <<>>, Some(x) == <<x>>).  A dict is a       *)
(* function from its keys.  A text (a message, a file's content) is a      *)
(* sequence of tokens, so that concatenation, emptiness and "mentions"     *)
(* are computed.  The process runs one asyncio event loop: a coroutine     *)
(* keeps the loop until it awaits something that suspends, and neither     *)
(* _execute_circuit nor the executors it awaits ever suspend.              *)
(***************************************************************************)
EXTENDS Integers, Sequences, FiniteSets, TLC

(* ---------------------------------------------------------------- bounds *)
\* number of requests admitted to the registry in one behaviour
MaxJobs == 2
\* number of non-terminal status samples after which the environment lets
\* the clock reach the polling deadline
MaxPolls == 2
\* largest valid shot count a request carries
MaxShots == 2
MaxQubits == 2
ProbabilityUnits == 4

(* ------------------------------------------------------ program constants *)
PollInterval == 30
DefaultPollTimeout == 3600
DefaultOptimizationLevel == 1

(* ----------------------------------------------------------- plain values *)
None == <<>>
Some(x) == <<x>>
\* a time.time() difference: the model does not measure durations
Duration == "seconds"
EmptyDict == <<>>
Get(d, k, default) == IF k \in DOMAIN d THEN d[k] ELSE default

\* str(uuid.uuid4()) of the n-th admitted request
JobId(n) == <<"job", n>>
\* the identifier the provider assigns to the submission made for job n
ProviderJobId(n) == <<"provider", n>>

QUEUED == "QUEUED"
RUNNING == "RUNNING"
COMPLETED == "COMPLETED"
FAILED == "FAILED"
CANCELLED == "CANCELLED"
JobStatus == {QUEUED, RUNNING, COMPLETED, FAILED, CANCELLED}
TerminalStatus == {COMPLETED, FAILED, CANCELLED}

SimulatorProvider == {"qiskit", "braket", "cirq"}
HardwareProvider == {"aws", "ibm", "google"}
BackendType == {"simulator", "hardware"}

(* ------------------------------------------------------------------ state *)
VARIABLES
    workload,       \* the requests the clients of this behaviour send
    available,      \* QISKIT_AVAILABLE, CIRQ_AVAILABLE, BRAKET_AVAILABLE
    jobs,           \* the registry: job number -> job record
    circuits,       \* circuits/<job_id>.qasm : job number -> text
    results,        \* results/<job_id>.json  : job number -> Optional payload
    mode,           \* job number -> "sync" | "async" (request.async_mode)
    pc,             \* job number -> position of the job's _execute_circuit
    loop,           \* the job whose coroutine holds the event loop, or 0
    frame,          \* locals of the coroutine that holds the event loop
    history,        \* job number -> the statuses its record has had, in order
    outcome,        \* job number -> Optional record of the adapter call made
                    \*   for the job: what the provider side did (trace)
                    \*   and what the adapter returned or raised (call)
    response,       \* job number -> Optional response handed to the caller
    rejected        \* Optional detail of the HTTP 400 the last request got

vars == <<workload, available, jobs, circuits, results, mode, pc, loop, frame,
          history, outcome, response, rejected>>

Admitted == DOMAIN jobs

(* --------------------------------------------------------------- requests *)
Whitespace == {" ", "\n"}

RECURSIVE LStrip(_)
LStrip(s) == IF s # <<>> /\ Head(s) \in Whitespace THEN LStrip(Tail(s)) ELSE s

RECURSIVE RStrip(_)
RStrip(s) ==
    IF s # <<>> /\ s[Len(s)] \in Whitespace
    THEN RStrip(SubSeq(s, 1, Len(s) - 1)) ELSE s

\* str.strip()
Strip(s) == RStrip(LStrip(s))

QasmText == <<"OPENQASM 2.0;", "\n", "measure q -> c;", "\n">>

CircuitFiles == {None, Some(<<>>), Some(<<" ", "\n">>), Some(QasmText)}
ShotValues == {-5, 0} \cup (1..MaxShots)
ProviderNames == SimulatorProvider \cup HardwareProvider \cup {"not-a-real-provider"}
BackendNames == {None, Some("device")}
ParameterBags ==
    { None,
      Some("wait_for_results" :> FALSE),
      Some("shots" :> 7) }

\* The requests of the model.  A simulator ignores backend_name, and the
\* bag that names wait_for_results is one a hardware caller sends.
Requests ==
    { r \in [ circuit_file     : CircuitFiles,
              shots            : ShotValues,
              backend_type     : BackendType,
              backend_provider : ProviderNames,
              backend_name     : BackendNames,
              async_mode       : BOOLEAN,
              parameters       : ParameterBags ] :
        IF r.backend_type = "simulator"
        THEN r.backend_name = None /\ r.parameters # Some("wait_for_results" :> FALSE)
        ELSE r.parameters # Some("shots" :> 7) }

\* the requests that differ only in what every caller may vary: the circuit,
\* the shot count up to 1, the backend and the execution mode
CommonRequests ==
    { r \in Requests :
        r.shots <= 1 /\ r.backend_name = None /\ r.parameters = None }

(* ------------------------------------------------------------- validation *)
\* an availability check that trusts every known provider
KnownProviderIsAvailable(provider) ==
    provider \in {"qiskit", "cirq", "braket", "aws", "ibm", "google"}

\* an availability check that ties IBM hardware to the local Qiskit install
IbmNeedsQiskit(provider) ==
    IF provider = "qiskit" THEN available["qiskit"]
    ELSE IF provider = "cirq" THEN available["cirq"]
    ELSE IF provider = "braket" THEN available["braket"]
    ELSE IF provider = "ibm" THEN available["qiskit"]
    ELSE IF provider \in {"aws", "google"} THEN TRUE
    ELSE FALSE

check_provider_availability(provider) ==
    IF provider = "qiskit" THEN available["qiskit"]
    ELSE IF provider = "cirq" THEN available["cirq"]
    ELSE IF provider = "braket" THEN available["braket"]
    ELSE IF provider \in {"aws", "ibm", "google"} THEN TRUE
    ELSE FALSE

\* a test that takes whitespace for a circuit
CircuitIsMissing(circuit_file) ==
    \/ circuit_file = None
    \/ circuit_file[1] = <<>>

\* if not request.circuit_file or request.circuit_file.strip() == ""
CircuitIsEmpty(circuit_file) ==
    \/ circuit_file = None
    \/ circuit_file[1] = <<>>
    \/ Strip(circuit_file[1]) = <<>>

\* one list of providers for both backend types
AllProviders(backend_type) == {"qiskit", "braket", "cirq", "aws", "ibm", "google"}

ValidProviders(backend_type) ==
    IF backend_type = "simulator"
    THEN {"qiskit", "braket", "cirq"}
    ELSE {"aws", "ibm", "google"}

\* a validation that does not look at the shot count
ValidateWithoutShots(request) ==
    IF CircuitIsEmpty(request.circuit_file)
    THEN Some(<<"Empty circuit file provided">>)
    ELSE IF request.backend_provider \notin ValidProviders(request.backend_type)
    THEN Some(<<"Invalid backend provider for ", request.backend_type,
                ". Must be one of: ", ValidProviders(request.backend_type)>>)
    ELSE IF ~check_provider_availability(request.backend_provider)
    THEN Some(<<request.backend_provider, " backend is not available">>)
    ELSE None

\* a validation that looks at the circuit only
ValidateCircuitOnly(request) ==
    IF CircuitIsEmpty(request.circuit_file)
    THEN Some(<<"Empty circuit file provided">>)
    ELSE None

\* the detail of the HTTPException the request is answered with, or None
Validate(request) ==
    IF CircuitIsEmpty(request.circuit_file)
    THEN Some(<<"Empty circuit file provided">>)
    ELSE IF request.shots <= 0
    THEN Some(<<"Shots must be a positive integer">>)
    ELSE IF request.backend_provider \notin ValidProviders(request.backend_type)
    THEN Some(<<"Invalid backend provider for ", request.backend_type,
                ". Must be one of: ", ValidProviders(request.backend_type)>>)
    ELSE IF ~check_provider_availability(request.backend_provider)
    THEN Some(<<request.backend_provider, " backend is not available">>)
    ELSE None

(* ------------------------------------------------------------ job records *)
CircuitPath(n) == <<"circuits/", JobId(n), ".qasm">>

\* a record whose identifier is generated once for the process, not per
\* request
NewJobWithProcessId(n, request) ==
    [ job_id              |-> JobId(1),
      status              |-> QUEUED,
      created_at          |-> "created",
      circuit_path        |-> CircuitPath(n),
      parameters          |-> request.parameters,
      shots               |-> request.shots,
      backend_type        |-> request.backend_type,
      backend_provider    |-> request.backend_provider,
      backend_name        |-> request.backend_name,
      provider_job_id     |-> None,
      provider_job_status |-> None ]

NewJob(n, request) ==
    [ job_id              |-> JobId(n),
      status              |-> QUEUED,
      created_at          |-> "created",
      circuit_path        |-> CircuitPath(n),
      parameters          |-> request.parameters,
      shots               |-> request.shots,
      backend_type        |-> request.backend_type,
      backend_provider    |-> request.backend_provider,
      backend_name        |-> request.backend_name,
      provider_job_id     |-> None,
      provider_job_status |-> None ]

SetStatus(job, status) == [job EXCEPT !.status = status]

\* the metadata the async branch of execute_circuit answers with
RequestMetadata(request) ==
    [ backend_type     |-> request.backend_type,
      backend_provider |-> request.backend_provider,
      backend_name     |-> request.backend_name,
      shots            |-> request.shots ]

\* CircuitExecutionResponse of the async branch, wrapped in the reply
AsyncResponse(n, request) ==
    [ status_code |-> 200,
      status      |-> "success",
      data        |-> Some([ job_id              |-> JobId(n),
                             status              |-> QUEUED,
                             execution_mode      |-> "async",
                             counts              |-> None,
                             provider_job_id     |-> None,
                             provider_job_status |-> None,
                             metadata            |-> RequestMetadata(request) ]),
      error       |-> None ]

EmptyFrame == [result |-> None, exc |-> None, ret |-> None, runner |-> None]

(* ------------------------------------------------- executors' return values *)
\* what a Python call does: it returns a value or raises with str(e) = message
Returned(v) == [raised |-> FALSE, value |-> Some(v), message |-> <<>>]
Raised(m) == [raised |-> TRUE, value |-> None, message |-> m]

\* A value handed to _execute_circuit as `result`.  kind "mapping" is a
\* Dict[str, number]; kind "record" is the dict {"counts": .., "metadata": ..}.
\* json says whether json.dump can encode the numbers it holds.
CountsMapping(m, json) ==
    [kind |-> "mapping", counts |-> m, metadata |-> EmptyDict, json |-> json]
FullResult(c, md, json) ==
    [kind |-> "record", counts |-> c, metadata |-> md, json |-> json]

\* f(name=.., **parameters) raises TypeError when parameters repeats a name
DuplicateKeyword(explicit, parameters) == (DOMAIN parameters \cap explicit) # {}
DuplicateKeywordMessage == <<"got multiple values for keyword argument">>

\* measurement outcomes a backend reports for `shots` samples of the circuit
SampleCounts(shots) ==
    {("0" :> shots)} \cup
    (IF shots > 1 THEN {("0" :> (shots - 1) @@ "1" :> 1)} ELSE {})

(* ------------------------------------------------------ braket simulation *)
RECURSIVE BinaryDigits(_)
BinaryDigits(i) ==
    IF i < 2 THEN (IF i = 0 THEN "0" ELSE "1")
    ELSE BinaryDigits(i \div 2) \o (IF i % 2 = 0 THEN "0" ELSE "1")

RECURSIVE BinaryLength(_)
BinaryLength(i) == IF i < 2 THEN 1 ELSE 1 + BinaryLength(i \div 2)

RECURSIVE Zeros(_)
Zeros(n) == IF n <= 0 THEN "" ELSE "0" \o Zeros(n - 1)

\* format(i, 'b'): no padding
FormatBinaryUnpadded(i, width) == BinaryDigits(i)

\* format(i, f'0{width}b')
FormatBinary(i, width) == Zeros(width - BinaryLength(i)) \o BinaryDigits(i)

\* int(v) of a measurement count: the SDK reports whole numbers, which
\* int() leaves as they are
ToInt(v) == v

\* What the Braket SDK does for one call of run_braket_simulation:
\*   kind "import_error"   the imports at the top of the function fail
\*   kind "file_not_found" the QASM file is not a file
\*   kind "qasm3" | "parse_error" | "sdk_error"  parsing or running fails
\*   kind "ok"             the task result: measurement_counts for shots > 0,
\*                         the probability vector and qubit count for shots = 0
BraketEnv(kind, raw_counts, probabilities, num_qubits) ==
    [ kind |-> kind, raw_counts |-> raw_counts,
      probabilities |-> probabilities, num_qubits |-> num_qubits ]

run_braket_simulation(shots, env) ==
    IF env.kind = "import_error" THEN Raised(<<"No module named braket">>)
    ELSE IF env.kind = "file_not_found" THEN Raised(<<"QASM file not found: ">>)
    ELSE IF env.kind \in {"qasm3", "parse_error", "sdk_error"} THEN Returned(None)
    ELSE IF shots > 0
    THEN Returned(Some(
            [ counts   |-> [k \in DOMAIN env.raw_counts |-> ToInt(env.raw_counts[k])],
              json     |-> TRUE,
              metadata |-> ("status" :> "COMPLETED" @@ "backend" :> "simulator") ]))
    ELSE IF env.probabilities = <<>> THEN Returned(None)
    ELSE Returned(Some(
            [ counts   |-> [ k \in { FormatBinary(i - 1, env.num_qubits) :
                                       i \in DOMAIN env.probabilities } |->
                             env.probabilities[
                               CHOOSE i \in DOMAIN env.probabilities :
                                 FormatBinary(i - 1, env.num_qubits) = k ] ],
              json     |-> TRUE,
              metadata |-> ("status" :> "COMPLETED" @@ "backend" :> "simulator"
                            @@ "result_type" :> "probabilities") ]))

RECURSIVE TwoToThe(_)
TwoToThe(n) == IF n = 0 THEN 1 ELSE 2 * TwoToThe(n - 1)

\* the probability vectors the simulator reports for n qubits: 2^n entries,
\* in units of 1/ProbabilityUnits, that sum to one
ProbabilityVectors(n) ==
    { v \in [1..TwoToThe(n) -> 0..ProbabilityUnits] :
        LET Sum[i \in 0..TwoToThe(n)] == IF i = 0 THEN 0 ELSE v[i] + Sum[i - 1]
        IN  Sum[TwoToThe(n)] = ProbabilityUnits }

\* the SDK behaviours a call with shots = 0 can meet
BraketProbabilityOutcomes ==
    UNION { { BraketEnv("ok", EmptyDict, v, n) : v \in ProbabilityVectors(n) } :
              n \in 1..MaxQubits } \cup
    { BraketEnv("ok", EmptyDict, <<>>, 1),
      BraketEnv("parse_error", EmptyDict, <<>>, 1) }

\* the SDK behaviours a job's braket execution can meet
BraketOutcomes(shots) ==
    { BraketEnv("ok", c, <<>>, 1) : c \in SampleCounts(shots) } \cup
    { BraketEnv("parse_error", EmptyDict, <<>>, 1),
      BraketEnv("import_error", EmptyDict, <<>>, 1) }

(* ------------------------------------ qiskit and cirq simulation backends *)
\* run_qiskit_simulation / run_cirq_simulation: a result dict, None, or an
\* exception, as decided by the SDK behaviour `env`
BackendEnv(kind, counts, json, message) ==
    [kind |-> kind, counts |-> counts, json |-> json, message |-> message]

run_simulation(shots, env) ==
    IF env.kind = "raise" THEN Raised(env.message)
    ELSE IF env.kind = "none" THEN Returned(None)
    ELSE Returned(Some(
            [ counts |-> env.counts, json |-> env.json,
              metadata |-> EmptyDict ]))

BackendOutcomes(shots) ==
    { BackendEnv("counts", c, TRUE, <<>>) : c \in SampleCounts(shots) } \cup
    { BackendEnv("counts", ("0" :> shots), FALSE, <<>>),
      BackendEnv("none", EmptyDict, TRUE, <<>>),
      BackendEnv("raise", EmptyDict, TRUE, <<>>) }

(* ---------------------------------------------------- simulator executors *)
\* an executor that lets the backend's exception through as it is
SimulatorExecutorReraising(name, is_available, parameters, call) ==
    IF ~is_available THEN Raised(<<name, " is not available">>)
    ELSE IF DuplicateKeyword({"qasm_file", "shots"}, parameters)
    THEN Raised(DuplicateKeywordMessage)
    ELSE IF call.raised
    THEN Raised(call.message)
    ELSE IF call.value[1] = None
    THEN Raised(<<name, " simulation returned no results">>)
    ELSE Returned(CountsMapping(call.value[1][1].counts, call.value[1][1].json))

\* an executor that answers a backend without results with empty counts
SimulatorExecutorEmptyOnNone(name, is_available, parameters, call) ==
    IF ~is_available THEN Raised(<<name, " is not available">>)
    ELSE IF DuplicateKeyword({"qasm_file", "shots"}, parameters)
    THEN Raised(<<"Failed to execute circuit with ", name, ": ">>
                \o DuplicateKeywordMessage)
    ELSE IF call.raised
    THEN Raised(<<"Failed to execute circuit with ", name, ": ">> \o call.message)
    ELSE IF call.value[1] = None
    THEN Returned(CountsMapping(EmptyDict, TRUE))
    ELSE Returned(CountsMapping(call.value[1][1].counts, call.value[1][1].json))

\* an executor that reports only one of the measured outcomes
SimulatorExecutorOneOutcome(name, is_available, parameters, call) ==
    IF ~is_available THEN Raised(<<name, " is not available">>)
    ELSE IF DuplicateKeyword({"qasm_file", "shots"}, parameters)
    THEN Raised(<<"Failed to execute circuit with ", name, ": ">>
                \o DuplicateKeywordMessage)
    ELSE IF call.raised
    THEN Raised(<<"Failed to execute circuit with ", name, ": ">> \o call.message)
    ELSE IF call.value[1] = None
    THEN Raised(<<"Failed to execute circuit with ", name, ": ",
                  name, " simulation returned no results">>)
    ELSE Returned(CountsMapping(
            [k \in {CHOOSE k \in DOMAIN call.value[1][1].counts : TRUE} |->
                call.value[1][1].counts[k]],
            call.value[1][1].json))

\* The body shared by execute_circuit_with_qiskit/_cirq/_braket: `call` is
\* what run_<name>_simulation(qasm_file=.., shots=.., **parameters) did.
SimulatorExecutor(name, is_available, parameters, call) ==
    IF ~is_available THEN Raised(<<name, " is not available">>)
    ELSE IF DuplicateKeyword({"qasm_file", "shots"}, parameters)
    THEN Raised(<<"Failed to execute circuit with ", name, ": ">>
                \o DuplicateKeywordMessage)
    ELSE IF call.raised
    THEN Raised(<<"Failed to execute circuit with ", name, ": ">> \o call.message)
    ELSE IF call.value[1] = None
    THEN Raised(<<"Failed to execute circuit with ", name, ": ",
                  name, " simulation returned no results">>)
    ELSE Returned(CountsMapping(call.value[1][1].counts, call.value[1][1].json))

execute_circuit_with_qiskit(parameters, shots, env) ==
    SimulatorExecutor("Qiskit", available["qiskit"], parameters,
                      run_simulation(shots, env))

execute_circuit_with_cirq(parameters, shots, env) ==
    SimulatorExecutor("Cirq", available["cirq"], parameters,
                      run_simulation(shots, env))

execute_circuit_with_braket(parameters, shots, env) ==
    SimulatorExecutor("Braket", available["braket"], parameters,
                      run_braket_simulation(shots, env))

(* ------------------------------------------- aws and google hardware runs *)
\* run_on_aws_hardware / run_on_google_hardware: a dict with "counts" and
\* possibly "metadata", None, or an exception
HardwareOutcomes(shots) ==
    { BackendEnv("full", c, TRUE, <<>>) : c \in SampleCounts(shots) } \cup
    { BackendEnv("full", ("error" :> 1), TRUE, <<>>),
      BackendEnv("bare", ("0" :> shots), TRUE, <<>>),
      BackendEnv("none", EmptyDict, TRUE, <<>>),
      BackendEnv("raise", EmptyDict, TRUE, <<"device offline">>) }

run_on_hardware(shots, env) ==
    IF env.kind = "raise" THEN Raised(env.message)
    ELSE IF env.kind = "none" THEN Returned(None)
    ELSE IF env.kind = "bare" THEN Returned(Some("counts" :> env.counts))
    ELSE Returned(Some("counts" :> env.counts @@
                       "metadata" :> ("platform" :> "hardware")))

AwsKeywords ==
    {"qasm_file", "device_id", "shots", "wait_for_results",
     "poll_timeout_seconds", "access_key", "secret_key", "region"}

execute_circuit_with_aws_hardware(parameters, shots, device_id, env) ==
    LET prefix == <<"Failed to execute circuit on AWS hardware: ">>
        call == run_on_hardware(shots, env)
    IN  IF DuplicateKeyword(AwsKeywords, parameters)
        THEN Raised(prefix \o DuplicateKeywordMessage)
        ELSE IF call.raised THEN Raised(prefix \o call.message)
        ELSE IF call.value[1] = None
        THEN Raised(prefix \o <<"AWS hardware execution returned no results">>)
        ELSE Returned(CountsMapping(
                Get(call.value[1][1], "counts", EmptyDict), env.json))

GoogleKeywords ==
    {"qasm_file", "device_id", "shots", "wait_for_results",
     "poll_timeout_seconds", "auth_file", "project_id"}

execute_circuit_with_google_hardware(parameters, shots, device_id, env) ==
    LET prefix == <<"Failed to execute circuit on Google hardware: ">>
        call == run_on_hardware(shots, env)
    IN  IF DuplicateKeyword(GoogleKeywords, parameters)
        THEN Raised(prefix \o DuplicateKeywordMessage)
        ELSE IF call.raised THEN Raised(prefix \o call.message)
        ELSE IF call.value[1] = None
        THEN Raised(prefix \o <<"Google hardware execution returned no results">>)
        ELSE IF "metadata" \notin DOMAIN call.value[1][1]
        THEN Raised(prefix \o <<"'metadata'">>)
        ELSE IF "counts" \notin DOMAIN call.value[1][1]
        THEN Raised(prefix \o <<"'counts'">>)
        ELSE Returned(CountsMapping(call.value[1][1]["counts"], env.json))

(* ------------------------------------------------------ ibm hardware run *)
\* A provider status: the runtime API reports a string, the older provider
\* API a qiskit JobStatus enum member.  A string may come in lower case,
\* which is what the upper() of line 260 allows for.
ProviderStatusNames == {"RUNNING", "DONE", "ERROR", "CANCELLED"}
ProviderStatus(kind, name) == [kind |-> kind, name |-> name]
StatusesOf(kind) ==
    { ProviderStatus(kind, n) : n \in ProviderStatusNames } \cup
    (IF kind = "str" THEN {ProviderStatus(kind, "done")} ELSE {})

\* str.upper() on the status texts that occur
Upper(s) ==
    CASE s = "done" -> "DONE"
      [] s = "error" -> "ERROR"
      [] s = "cancelled" -> "CANCELLED"
      [] s = "queued" -> "QUEUED"
      [] s = "running" -> "RUNNING"
      [] s = "JobStatus." -> "JOBSTATUS."
      [] OTHER -> s

\* str(status), as the tokens of the text
StatusText(st) ==
    IF st.kind = "enum" THEN <<"JobStatus.", st.name>> ELSE <<st.name>>

UpperText(t) == [i \in DOMAIN t |-> Upper(t[i])]

\* the test that ends the polling loop (lines 244-251)
IsTerminalSample(st) == st.name \in {"DONE", "ERROR", "CANCELLED"}

\* a test for DONE that takes the status text as it is spelled
IsDoneAsSpelled(st) == st.name = "DONE"

\* job_final_status == JobStatus.DONE or str(job_final_status).upper() == "DONE"
IsDone(st) ==
    \/ st.kind = "enum" /\ st.name = "DONE"
    \/ UpperText(StatusText(st)) = <<"DONE">>

\* the arguments execute_circuit_with_ibm_hardware passes to the runner
IbmKeywords ==
    {"qasm_file", "device_id", "shots", "wait_for_results",
     "poll_timeout_seconds", "optimization_level", "api_token"}

IbmArguments(parameters, shots, device_id) ==
    [ device_id            |-> device_id,
      shots                |-> shots,
      wait_for_results     |-> Get(parameters, "wait_for_results", TRUE),
      poll_timeout_seconds |-> Get(parameters, "poll_timeout_seconds",
                                   DefaultPollTimeout),
      optimization_level   |-> Get(parameters, "optimization_level",
                                   DefaultOptimizationLevel),
      api_token            |-> Get(parameters, "api_token", None) ]

\* metadata of the early error returns (lines 86-90, 430-434)
IbmErrorMetadata(args, message) ==
    "platform" :> "ibm" @@ "device_id" :> args.device_id @@ "error" :> message

\* metadata set up once the submission has returned a job id (lines 224-231)
IbmJobMetadata(args, provider_job_id) ==
    "platform" :> "ibm" @@ "provider" :> "IBM" @@ "device" :> "device" @@
    "device_id" :> args.device_id @@ "provider_job_id" :> provider_job_id @@
    "optimization_level" :> args.optimization_level

IbmErrorResult(metadata) == FullResult(("error" :> 1), metadata, TRUE)

\* lines 409-415: the placeholder returned without waiting
IbmPendingResult(args, metadata) ==
    FullResult(("pending" :> args.shots),
               ("status" :> "QUEUED" @@
                "message" :> <<"Job submitted but not waiting for results">>)
               @@ metadata,
               TRUE)

\* The object job.result() returns, as far as lines 280-381 look at it:
\*   get_counts   the accessor result.get_counts, if the attribute exists
\*   data         result.data, if it exists, with its counts attribute if any
\*   pub_results  result._pub_results, if it exists: per circuit a record
\*                whose data, if it exists, maps attribute names to values
\*                that may have a get_counts accessor
\* An accessor returns a value (possibly None) or raises.
Accessor(raises, value) == [raises |-> raises, value |-> value]
GoodAccessor(c) == Accessor(FALSE, Some(c))
FailingAccessors == {Accessor(TRUE, None), Accessor(FALSE, None)}

RawResult(get_counts, data, pub_results) ==
    [get_counts |-> get_counts, data |-> data, pub_results |-> pub_results]

\* attribute names of pub_result.data, in the order dir() lists them
DirOrder == <<"_out", "c", "meas", "measurement", "out">>
RegisterNames == {DirOrder[i] : i \in DOMAIN DirOrder}
StartsWithUnderscore(name) == name = "_out"

AttributeValues(c) ==
    { [get_counts |-> a] :
        a \in {None, Some(GoodAccessor(c))} \cup {Some(f) : f \in FailingAccessors} }

\* the attribute maps of a pub_result.data: one attribute, or the register
\* "c" without usable counts beside a second attribute that has them
RegisterData(c) ==
    {EmptyDict} \cup
    { n :> v : n \in RegisterNames, v \in AttributeValues(c) } \cup
    { ("c" :> [get_counts |-> a]) @@ (n :> [get_counts |-> Some(GoodAccessor(c))]) :
        a \in {None, Some(Accessor(TRUE, None))}, n \in RegisterNames \ {"c"} }

PubResults(c) == {[data |-> None]} \cup { [data |-> Some(d)] : d \in RegisterData(c) }

PubResultLists(c) ==
    {None, Some(<<>>)} \cup
    { Some(<<pub>>) : pub \in PubResults(c) } \cup
    { Some(<<[data |-> None], [data |-> Some(n :> [get_counts |-> Some(GoodAccessor(c))])]>>) :
        n \in {"c", "out"} }

RawResults(c) ==
    { RawResult(g, d, pubs) :
        g \in {None, Some(GoodAccessor(c))} \cup {Some(f) : f \in FailingAccessors},
        d \in {None, Some([counts |-> None]), Some([counts |-> Some(c)])},
        pubs \in PubResultLists(c) }

\* circuit.cregs of the parsed circuit: the names of its classical registers
ClassicalRegisters == {<<>>, <<"c">>, <<"out">>}

\* lines 324-342
attempt_extraction(data, reg_name) ==
    IF reg_name \in DOMAIN data
       /\ data[reg_name].get_counts # None
       /\ ~data[reg_name].get_counts[1].raises
    THEN data[reg_name].get_counts[1].value
    ELSE None

\* for name in names: extracted = attempt_extraction(name); stop if not None
RECURSIVE FirstExtracted(_, _)
FirstExtracted(data, names) ==
    IF names = <<>> THEN None
    ELSE IF attempt_extraction(data, Head(names)) # None
    THEN attempt_extraction(data, Head(names))
    ELSE FirstExtracted(data, Tail(names))

\* list.remove(name) on a list that holds name at most once
Remove(names, name) == SelectSeq(names, LAMBDA n : n # name)

\* lines 362-366: the public attributes of data that have a get_counts
InspectedAttributes(data) ==
    SelectSeq(DirOrder,
              LAMBDA n : /\ n \in DOMAIN data
                         /\ ~StartsWithUnderscore(n)
                         /\ data[n].get_counts # None)

\* an extraction that tries the common names before the declared register
ExtractCommonNamesFirst(pub_results, cregs) ==
    LET pub_result == pub_results[1]
        creg_name == IF cregs # <<>> THEN cregs[1] ELSE "c"
    IN  IF pub_result.data = None THEN None
        ELSE LET data == pub_result.data[1]
                 common == FirstExtracted(
                             data, <<"c", "meas", "measurement">> \o <<creg_name>>)
             IN  IF common # None THEN common
                 ELSE FirstExtracted(data, InspectedAttributes(data))

\* lines 296-381: the PrimitiveResult branch
ExtractFromPubResults(pub_results, cregs) ==
    LET pub_result == pub_results[1]
        creg_name == IF cregs # <<>> THEN cregs[1] ELSE "c"
    IN  IF pub_result.data = None THEN None
        ELSE LET data == pub_result.data[1]
                 primary == attempt_extraction(data, creg_name)
                 common == IF primary # None THEN primary
                           ELSE FirstExtracted(
                                  data, Remove(<<"c", "meas", "measurement">>, creg_name))
             IN  IF common # None THEN common
                 ELSE FirstExtracted(data, InspectedAttributes(data))

\* an extraction that goes on to the next shape when one yields nothing
ExtractCountsFallingThrough(result, cregs) ==
    IF result.get_counts # None /\ ~result.get_counts[1].raises
       /\ result.get_counts[1].value # None
    THEN result.get_counts[1].value
    ELSE IF result.data # None /\ result.data[1].counts # None
    THEN result.data[1].counts
    ELSE IF result.pub_results # None /\ result.pub_results[1] # <<>>
    THEN ExtractFromPubResults(result.pub_results[1], cregs)
    ELSE None

\* lines 278-381: result_counts, None when no strategy found counts
ExtractCounts(result, cregs) ==
    IF result.get_counts # None
    THEN IF result.get_counts[1].raises THEN None ELSE result.get_counts[1].value
    ELSE IF result.data # None
    THEN result.data[1].counts
    ELSE IF result.pub_results # None /\ result.pub_results[1] # <<>>
    THEN ExtractFromPubResults(result.pub_results[1], cregs)
    ELSE None

\* a default that reports no measurement at all
CountsOrEmpty(result_counts) ==
    IF result_counts # None THEN result_counts[1] ELSE EmptyDict

\* lines 383-390
CountsOrSentinel(result_counts) ==
    IF result_counts # None THEN result_counts[1] ELSE ("error_extracting_counts" :> 1)

\* what job.result() and the extraction of counts from it yield:
\*   kind "counts"  the counts the extraction ends with (lines 383-390),
\*                  for every result object and register list of the model
\*   kind "raise"   job.result() or the extraction raised
NormalizedCounts ==
    [ shots \in 1..MaxShots |->
        { CountsOrSentinel(ExtractCounts(raw, cregs)) :
            raw \in UNION { RawResults(c) : c \in SampleCounts(shots) },
            cregs \in ClassicalRegisters } ]

IbmResultOutcomes(shots) ==
    { BackendEnv("counts", counts, TRUE, <<>>) : counts \in NormalizedCounts[shots] } \cup
    { BackendEnv("raise", EmptyDict, TRUE, <<"result unavailable">>) }

\* lines 260-408: the return value once polling has ended with final status
\* `final`; `again` is the status the error message samples anew (line 403)
IbmFinalResult(args, metadata, final, again, env) ==
    IF IsDone(final)
    THEN LET done == ("shots" :> args.shots @@ "status" :> final.name @@
                      "execution_time" :> Duration) @@ metadata
         IN  IF env.kind = "raise"
             THEN IbmErrorResult(
                    ("error" :> (<<"Failed to process result: ">> \o env.message))
                    @@ done)
             ELSE FullResult(env.counts, done, env.json)
    ELSE IbmErrorResult(
            ("error" :> (<<"Job failed or timed out. Final status: ">>
                         \o StatusText(again))) @@ metadata)

\* lines 417-434: an exception after the credentials were found
IbmSubmitFailure(args, message) ==
    IbmErrorResult(IbmErrorMetadata(
        args, <<"Failed to submit circuit to IBM Quantum: ">> \o message))

\* lines 249-258 of circuit_executor.py: the executor stamps its own
\* execution time on the runner's metadata and returns the runner's dict whole
IbmExecutorReturn(result) ==
    Returned([result EXCEPT !.metadata = ("execution_time" :> Duration) @@ @])

(* ------------------------------------------------------ _execute_circuit *)
\* parameters = job["parameters"] or {}
ParametersOf(job) ==
    IF job.parameters = None \/ job.parameters[1] = EmptyDict
    THEN EmptyDict ELSE job.parameters[1]

\* os.path.basename(circuit_path)
Basename(path) == Tail(path)

JobMetadata(job, stamp, parameters) ==
    "circuit_file" :> Basename(job.circuit_path) @@
    "job_id" :> job.job_id @@
    "backend_type" :> job.backend_type @@
    "backend_provider" :> job.backend_provider @@
    "backend_name" :> job.backend_name @@
    "shots" :> job.shots @@
    "parameters" :> parameters @@
    "created_at" :> job.created_at @@
    stamp :> "now"

\* lines 245-260
ResultData(job, result) ==
    "counts" :> result @@
    "execution_time" :> Duration @@
    "metadata" :> JobMetadata(job, "completed_at", Some(ParametersOf(job))) @@
    "success" :> TRUE

\* an error record that also carries an empty counts field
ErrorDataWithCounts(job, message) ==
    "error" :> message @@
    "counts" :> CountsMapping(EmptyDict, TRUE) @@
    "metadata" :> JobMetadata(job, "failed_at", job.parameters) @@
    "success" :> FALSE

\* lines 304-318
ErrorData(job, message) ==
    "error" :> message @@
    "metadata" :> JobMetadata(job, "failed_at", job.parameters) @@
    "success" :> FALSE

\* what results/<job_id>.json holds when json.dump raised part-way
PartialFile == "truncated" :> TRUE

\* for field in fields: if field in metadata: value = metadata[field]; break
RECURSIVE FirstPresent(_, _)
FirstPresent(fields, metadata) ==
    IF fields = <<>> THEN None
    ELSE IF Head(fields) \in DOMAIN metadata THEN Some(metadata[Head(fields)])
    ELSE FirstPresent(Tail(fields), metadata)

ProviderIdFields == <<"task_id", "job_id", "provider_job_id">>
ProviderStatusFields == <<"status", "job_status", "provider_status", "task_status">>

\* lines 267-288: the provider job id _execute_circuit stores on the job
StoredProviderJobId(job, result_data) ==
    IF Get(result_data, "success", FALSE)
       /\ FirstPresent(ProviderIdFields, result_data["metadata"]) # None
    THEN FirstPresent(ProviderIdFields, result_data["metadata"])
    ELSE job.provider_job_id

\* lines 267-292: the provider job status _execute_circuit stores on the job
StoredProviderJobStatus(job, result_data) ==
    IF Get(result_data, "success", FALSE)
       /\ FirstPresent(ProviderStatusFields, result_data["metadata"]) # None
    THEN FirstPresent(ProviderStatusFields, result_data["metadata"])
    ELSE job.provider_job_status

\* The call lines 221-236 make for `job`: the adapter and the arguments it
\* is handed; adapter "none" where a ValueError is raised instead.
AdapterCall(adapter, job, device, message) ==
    [ adapter      |-> adapter,
      circuit_path |-> job.circuit_path,
      parameters   |-> ParametersOf(job),
      shots        |-> job.shots,
      device       |-> device,
      message      |-> message ]

\* a routing whose hardware branch leaves the device to the adapter
InvocationWithoutDevice(job) ==
    LET provider == job.backend_provider
    IN  IF job.backend_type = "simulator"
        THEN IF provider \in {"qiskit", "braket", "cirq"}
             THEN AdapterCall(<<"execute_circuit_with_", provider>>, job, None, <<>>)
             ELSE AdapterCall(<<"none">>, job, None,
                              <<"Unsupported simulator provider: ", provider>>)
        ELSE IF provider \in {"ibm", "aws", "google"}
             THEN AdapterCall(<<"execute_circuit_with_", provider, "_hardware">>,
                              job, None, <<>>)
             ELSE AdapterCall(<<"none">>, job, None,
                              <<"Unsupported hardware provider: ", provider>>)

Invocation(job) ==
    LET provider == job.backend_provider
    IN  IF job.backend_type = "simulator"
        THEN IF provider = "qiskit"
             THEN AdapterCall(<<"execute_circuit_with_", "qiskit">>, job, None, <<>>)
             ELSE IF provider = "braket"
             THEN AdapterCall(<<"execute_circuit_with_", "braket">>, job, None, <<>>)
             ELSE IF provider = "cirq"
             THEN AdapterCall(<<"execute_circuit_with_", "cirq">>, job, None, <<>>)
             ELSE AdapterCall(<<"none">>, job, None,
                              <<"Unsupported simulator provider: ", provider>>)
        ELSE IF job.backend_type = "hardware"
        THEN IF provider = "ibm"
             THEN AdapterCall(<<"execute_circuit_with_", "ibm", "_hardware">>,
                              job, job.backend_name, <<>>)
             ELSE IF provider = "aws"
             THEN AdapterCall(<<"execute_circuit_with_", "aws", "_hardware">>,
                              job, job.backend_name, <<>>)
             ELSE IF provider = "google"
             THEN AdapterCall(<<"execute_circuit_with_", "google", "_hardware">>,
                              job, job.backend_name, <<>>)
             ELSE AdapterCall(<<"none">>, job, None,
                              <<"Unsupported hardware provider: ", provider>>)
        ELSE AdapterCall(<<"none">>, job, None,
                         <<"Unsupported backend type: ", job.backend_type>>)

\* what the call made for `job` returns or raises when the provider side
\* behaves as `env`
Dispatch(job, env) ==
    LET call == Invocation(job)
    IN  IF call.adapter = <<"execute_circuit_with_", "qiskit">>
        THEN execute_circuit_with_qiskit(call.parameters, call.shots, env)
        ELSE IF call.adapter = <<"execute_circuit_with_", "braket">>
        THEN execute_circuit_with_braket(call.parameters, call.shots, env)
        ELSE IF call.adapter = <<"execute_circuit_with_", "cirq">>
        THEN execute_circuit_with_cirq(call.parameters, call.shots, env)
        ELSE IF call.adapter = <<"execute_circuit_with_", "aws", "_hardware">>
        THEN execute_circuit_with_aws_hardware(
                 call.parameters, call.shots, call.device, env)
        ELSE IF call.adapter = <<"execute_circuit_with_", "google", "_hardware">>
        THEN execute_circuit_with_google_hardware(
                 call.parameters, call.shots, call.device, env)
        ELSE Raised(call.message)

\* the provider-side behaviours the adapter of `job` can meet
OutcomesFor(job) ==
    IF job.backend_type = "simulator"
    THEN IF job.backend_provider = "braket"
         THEN BraketOutcomes(job.shots) ELSE BackendOutcomes(job.shots)
    ELSE HardwareOutcomes(job.shots)

IsIbmJob(job) == job.backend_type = "hardware" /\ job.backend_provider = "ibm"

\* lines 141-166: the reply of the synchronous branch.  The response model
\* declares counts as Dict[str, float]; any other value is a validation
\* error that execute_circuit does not catch.
SyncResponse(job, ret) ==
    IF Get(ret, "success", FALSE)
    THEN IF ret["counts"].kind = "mapping"
         THEN [ status_code |-> 200,
                status      |-> "success",
                data        |-> Some(
                    [ job_id              |-> job.job_id,
                      status              |-> COMPLETED,
                      execution_mode      |-> "sync",
                      execution_time      |-> Get(ret, "execution_time", None),
                      counts              |-> Some(ret["counts"].counts),
                      provider_job_id     |-> job.provider_job_id,
                      provider_job_status |-> job.provider_job_status,
                      metadata            |-> RequestMetadata(job) ]),
                error       |-> None ]
         ELSE [ status_code |-> 500, status |-> "unhandled",
                data |-> None, error |-> None ]
    ELSE [ status_code |-> 200,
           status      |-> "error",
           data        |-> None,
           error       |-> Some(Get(ret, "error", <<"Unknown execution error">>)) ]

(* ---------------------------------------------------------------- actions *)
\* Two kinds of behaviour are explored: one client sending any one request
\* of Requests to a process with any set of simulators installed, and
\* clients sending up to MaxJobs of the CommonRequests to a process with
\* every simulator installed.
Init ==
    /\ \/ /\ workload = "single"
          /\ available \in [SimulatorProvider -> BOOLEAN]
       \/ /\ workload = "concurrent"
          /\ available = [p \in SimulatorProvider |-> TRUE]
    /\ jobs = <<>>
    /\ circuits = <<>>
    /\ results = <<>>
    /\ mode = <<>>
    /\ pc = <<>>
    /\ loop = 0
    /\ frame = EmptyFrame
    /\ history = <<>>
    /\ outcome = <<>>
    /\ response = <<>>
    /\ rejected = None

\* execute_circuit, lines 76-110: the request is answered with HTTP 400
Reject(request) ==
    /\ Validate(request) # None
    /\ rejected' = Validate(request)
    /\ UNCHANGED <<workload, available, jobs, circuits, results, mode, pc, loop, frame,
                   history, outcome, response>>

\* execute_circuit, lines 112-189: the job is created; the synchronous
\* branch goes on into _execute_circuit without leaving the event loop, the
\* asynchronous branch hands the job to the background tasks and answers
Submit(request) ==
    LET n == Cardinality(Admitted) + 1 IN
    /\ Validate(request) = None
    /\ rejected' = None
    /\ circuits' = circuits @@ (n :> request.circuit_file[1])
    /\ jobs' = jobs @@ (n :> NewJob(n, request))
    /\ results' = results @@ (n :> None)
    /\ history' = history @@ (n :> <<QUEUED>>)
    /\ outcome' = outcome @@ (n :> None)
    /\ IF request.async_mode
       THEN /\ mode' = mode @@ (n :> "async")
            /\ pc' = pc @@ (n :> "pending")
            /\ response' = response @@ (n :> Some(AsyncResponse(n, request)))
            /\ loop' = 0
       ELSE /\ mode' = mode @@ (n :> "sync")
            /\ pc' = pc @@ (n :> "start")
            /\ response' = response @@ (n :> None)
            /\ loop' = n
    /\ UNCHANGED <<workload, available, frame>>

\* a background task that is handed to the event loop again after it ended
StartBackgroundAgain(j) ==
    /\ loop = 0
    /\ j \in Admitted
    /\ pc[j] \in {"pending", "done"}
    /\ loop' = j
    /\ pc' = [pc EXCEPT ![j] = "start"]
    /\ UNCHANGED <<workload, available, jobs, circuits, results, mode, frame, history,
                   outcome, response, rejected>>

\* the background task of an asynchronous request gets the event loop
StartBackground(j) ==
    /\ loop = 0
    /\ j \in Admitted
    /\ pc[j] = "pending"
    /\ loop' = j
    /\ pc' = [pc EXCEPT ![j] = "start"]
    /\ UNCHANGED <<workload, available, jobs, circuits, results, mode, frame, history,
                   outcome, response, rejected>>

At(j, where) == j \in DOMAIN pc /\ loop = j /\ pc[j] = where

\* a start that goes to the adapter call without marking the job RUNNING
StartWithoutRunning(j) ==
    /\ At(j, "start")
    /\ IF j \notin DOMAIN jobs
       THEN /\ frame' = [frame EXCEPT
                  !.ret = Some("success" :> FALSE @@ "error" :> <<"Job not found">>)]
            /\ pc' = [pc EXCEPT ![j] = "return"]
       ELSE /\ pc' = [pc EXCEPT ![j] = "execute"]
            /\ UNCHANGED frame
    /\ UNCHANGED <<workload, available, jobs, circuits, results, mode, loop, history,
                   outcome, response, rejected>>

\* lines 202-207
Start(j) ==
    /\ At(j, "start")
    /\ IF j \notin DOMAIN jobs
       THEN /\ frame' = [frame EXCEPT
                  !.ret = Some("success" :> FALSE @@ "error" :> <<"Job not found">>)]
            /\ pc' = [pc EXCEPT ![j] = "return"]
            /\ UNCHANGED <<jobs, history>>
       ELSE /\ jobs' = [jobs EXCEPT ![j] = SetStatus(@, RUNNING)]
            /\ history' = [history EXCEPT ![j] = Append(@, RUNNING)]
            /\ pc' = [pc EXCEPT ![j] = "execute"]
            /\ UNCHANGED frame
    /\ UNCHANGED <<workload, available, circuits, results, mode, loop, outcome,
                   response, rejected>>

\* What the provider side did during one adapter call:
\*   how    "call" for the adapters that run in one call, else the way the
\*          IBM run went: "type_error", "no_token", "failed" (submission),
\*          "submitted" (not waited for), "connection" (lost while
\*          polling) or "polled"
\*   env    the SDK behaviour met by the call or by the result extraction
\*   final  the status sampled after the loop (line 256)
\*   again  the status sampled for the error message (line 403)
\*   remote the operations issued on the provider's job: "run" (the
\*          submission), "status", "result"
Trace(how, env, final, again) ==
    [how |-> how, env |-> env, final |-> final, again |-> again, remote |-> {}]
WithRemote(trace, operations) == [trace EXCEPT !.remote = operations]

NoEnv == BackendEnv("none", EmptyDict, TRUE, <<>>)
IbmTrace(how) == Trace(how, NoEnv, None, None)

\* the adapter's return value or exception reaches _execute_circuit
Deliver(j, call, trace) ==
    /\ outcome' = [outcome EXCEPT ![j] =
            Some([call |-> call, trace |-> trace, invoked |-> Invocation(jobs[j])])]
    /\ IF call.raised
       THEN /\ frame' = [frame EXCEPT !.exc = Some(call.message), !.runner = None]
            /\ pc' = [pc EXCEPT ![j] = "fail"]
       ELSE /\ frame' = [frame EXCEPT !.result = call.value, !.runner = None]
            /\ pc' = [pc EXCEPT ![j] = "save"]

\* lines 221-240 for the adapters that run in one call
Execute(j) ==
    /\ At(j, "execute")
    /\ ~IsIbmJob(jobs[j])
    /\ \E env \in OutcomesFor(jobs[j]) :
         Deliver(j, Dispatch(jobs[j], env), Trace("call", env, None, None))
    /\ UNCHANGED <<workload, available, jobs, circuits, results, mode, loop, history,
                   response, rejected>>

\* line 232 and circuit_executor.py lines 230-247: the call of the runner
ExecuteIbm(j) ==
    /\ At(j, "execute")
    /\ IsIbmJob(jobs[j])
    /\ IF DuplicateKeyword(IbmKeywords, Invocation(jobs[j]).parameters)
       THEN Deliver(j, Raised(<<"Failed to execute circuit on IBM hardware: ">>
                              \o DuplicateKeywordMessage),
                    IbmTrace("type_error"))
       ELSE /\ frame' = [frame EXCEPT !.runner = Some(
                  [ args     |-> IbmArguments(Invocation(jobs[j]).parameters,
                                              Invocation(jobs[j]).shots,
                                              Invocation(jobs[j]).device),
                    metadata |-> EmptyDict,
                    kind     |-> "str",
                    elapsed  |-> 0,
                    polls    |-> 0,
                    last     |-> None,
                    remote   |-> {} ])]
            /\ pc' = [pc EXCEPT ![j] = "ibm_submit"]
            /\ UNCHANGED outcome
    /\ UNCHANGED <<workload, available, jobs, circuits, results, mode, loop, history,
                   response, rejected>>

\* run_on_ibm_hardware lines 43-231 and 409-415: credentials, parsing and
\* submission; `how` is what the provider side did
IbmSubmit(j) ==
    /\ At(j, "ibm_submit")
    /\ LET r == frame.runner[1] IN
       \E how \in {"no_token", "failed", "runtime", "provider"} :
         IF how = "no_token"
         THEN Deliver(j, IbmExecutorReturn(
                  IbmErrorResult(IbmErrorMetadata(
                      r.args, <<"IBM Quantum API token not found.">>))),
                  IbmTrace("no_token"))
         ELSE IF how = "failed"
         THEN Deliver(j, IbmExecutorReturn(
                  IbmSubmitFailure(r.args, <<"No IBM Quantum devices available">>)),
                  IbmTrace("failed"))
         ELSE IF ~r.args.wait_for_results
         THEN Deliver(j, IbmExecutorReturn(
                  IbmPendingResult(r.args, IbmJobMetadata(r.args, ProviderJobId(j)))),
                  WithRemote(IbmTrace("submitted"), {"run"}))
         ELSE /\ frame' = [frame EXCEPT !.runner = Some(
                    [ r EXCEPT
                        !.metadata = IbmJobMetadata(r.args, ProviderJobId(j)),
                        !.kind = IF how = "runtime" THEN "str" ELSE "enum",
                        !.remote = {"run"} ])]
              /\ pc' = [pc EXCEPT ![j] = "ibm_poll"]
              /\ UNCHANGED outcome
    /\ UNCHANGED <<workload, available, jobs, circuits, results, mode, loop, history,
                   response, rejected>>

\* statuses the provider can report after it reported `last`: a terminal
\* status is final, however it is spelled
NextStatuses(kind, last) ==
    IF last # None /\ Upper(last[1].name) \in {"DONE", "ERROR", "CANCELLED"}
    THEN {last[1]} ELSE StatusesOf(kind)

\* a polling loop that cancels the provider job when the timeout elapses
IbmPollCancellingOnTimeout(j) ==
    /\ At(j, "ibm_poll")
    /\ LET r == frame.runner[1] IN
       IF ~(r.elapsed < r.args.poll_timeout_seconds)
       THEN /\ pc' = [pc EXCEPT ![j] = "ibm_final"]
            /\ frame' = [frame EXCEPT !.runner = Some(
                     [r EXCEPT !.remote = r.remote \cup {"cancel"}])]
            /\ UNCHANGED outcome
       ELSE \E st \in NextStatuses(r.kind, r.last) \cup {ProviderStatus("raise", "")} :
              IF st.kind = "raise"
              THEN Deliver(j, IbmExecutorReturn(
                       IbmSubmitFailure(r.args, <<"connection lost">>)),
                       WithRemote(IbmTrace("connection"), r.remote \cup {"status"}))
              ELSE IF IsTerminalSample(st)
              THEN /\ frame' = [frame EXCEPT !.runner = Some(
                            [r EXCEPT !.last = Some(st),
                                      !.remote = r.remote \cup {"status"}])]
                   /\ pc' = [pc EXCEPT ![j] = "ibm_final"]
                   /\ UNCHANGED outcome
              ELSE /\ \E later \in
                          (IF r.polls < MaxPolls
                           THEN {r.elapsed + PollInterval} ELSE {}) \cup
                          {r.args.poll_timeout_seconds} :
                        frame' = [frame EXCEPT !.runner = Some(
                            [r EXCEPT !.last = Some(st),
                                      !.elapsed = later,
                                      !.polls = r.polls + 1,
                                      !.remote = r.remote \cup {"status"}])]
                   /\ UNCHANGED <<pc, outcome>>
    /\ UNCHANGED <<workload, available, jobs, circuits, results, mode, loop, history,
                   response, rejected>>

\* a polling loop that samples again at once, without sleeping
IbmPollWithoutSleep(j) ==
    /\ At(j, "ibm_poll")
    /\ LET r == frame.runner[1] IN
       IF ~(r.elapsed < r.args.poll_timeout_seconds)
       THEN /\ pc' = [pc EXCEPT ![j] = "ibm_final"]
            /\ UNCHANGED <<frame, outcome>>
       ELSE \E st \in NextStatuses(r.kind, r.last) \cup {ProviderStatus("raise", "")} :
              IF st.kind = "raise"
              THEN Deliver(j, IbmExecutorReturn(
                       IbmSubmitFailure(r.args, <<"connection lost">>)),
                       WithRemote(IbmTrace("connection"), r.remote \cup {"status"}))
              ELSE IF IsTerminalSample(st)
              THEN /\ frame' = [frame EXCEPT !.runner = Some(
                            [r EXCEPT !.last = Some(st),
                                      !.remote = r.remote \cup {"status"}])]
                   /\ pc' = [pc EXCEPT ![j] = "ibm_final"]
                   /\ UNCHANGED outcome
              ELSE /\ frame' = [frame EXCEPT !.runner = Some(
                            [r EXCEPT !.last = Some(st),
                                      !.polls = 1,
                                      !.remote = r.remote \cup {"status"}])]
                   /\ UNCHANGED <<pc, outcome>>
    /\ UNCHANGED <<workload, available, jobs, circuits, results, mode, loop, history,
                   response, rejected>>

\* run_on_ibm_hardware lines 239-253: one test of the loop condition and,
\* when it holds, one status sample followed by the break or the sleep.
\* The sleep lasts PollInterval, or, the environment being slow, until the
\* deadline; after MaxPolls samples the deadline is reached.
IbmPoll(j) ==
    /\ At(j, "ibm_poll")
    /\ LET r == frame.runner[1] IN
       IF ~(r.elapsed < r.args.poll_timeout_seconds)
       THEN /\ pc' = [pc EXCEPT ![j] = "ibm_final"]
            /\ UNCHANGED <<frame, outcome>>
       ELSE \E st \in NextStatuses(r.kind, r.last) \cup {ProviderStatus("raise", "")} :
              IF st.kind = "raise"
              THEN Deliver(j, IbmExecutorReturn(
                       IbmSubmitFailure(r.args, <<"connection lost">>)),
                       WithRemote(IbmTrace("connection"), r.remote \cup {"status"}))
              ELSE IF IsTerminalSample(st)
              THEN /\ frame' = [frame EXCEPT !.runner = Some(
                            [r EXCEPT !.last = Some(st),
                                      !.remote = r.remote \cup {"status"}])]
                   /\ pc' = [pc EXCEPT ![j] = "ibm_final"]
                   /\ UNCHANGED outcome
              ELSE /\ \E later \in
                          (IF r.polls < MaxPolls
                           THEN {r.elapsed + PollInterval} ELSE {}) \cup
                          {r.args.poll_timeout_seconds} :
                        frame' = [frame EXCEPT !.runner = Some(
                            [r EXCEPT !.last = Some(st),
                                      !.elapsed = later,
                                      !.polls = r.polls + 1,
                                      !.remote = r.remote \cup {"status"}])]
                   /\ UNCHANGED <<pc, outcome>>
    /\ UNCHANGED <<workload, available, jobs, circuits, results, mode, loop, history,
                   response, rejected>>

\* run_on_ibm_hardware lines 255-408: the final status sample, the result
\* or the error payload, and the executor's return; either status call
\* (lines 256 and 403) may raise, which the except of line 417 turns into
\* the submission failure
IbmFinal(j) ==
    /\ At(j, "ibm_final")
    /\ LET r == frame.runner[1] IN
       \E final \in NextStatuses(r.kind, r.last) \cup {ProviderStatus("raise", "")} :
       \E again \in (IF final.kind = "raise" THEN {final}
                     ELSE NextStatuses(r.kind, Some(final)) \cup
                          (IF IsDone(final) THEN {}
                           ELSE {ProviderStatus("raise", "")})) :
         IF final.kind = "raise" \/ again.kind = "raise"
         THEN Deliver(j, IbmExecutorReturn(
                  IbmSubmitFailure(r.args, <<"connection lost">>)),
                  WithRemote(IbmTrace("connection"), r.remote \cup {"status"}))
         ELSE \E env \in (IF IsDone(final) THEN IbmResultOutcomes(r.args.shots)
                          ELSE {NoEnv}) :
                Deliver(j, IbmExecutorReturn(
                    IbmFinalResult(r.args, r.metadata, final, again, env)),
                    WithRemote(Trace("polled", env, Some(final), Some(again)),
                               r.remote \cup {"status"} \cup
                               (IF IsDone(final) THEN {"result"} ELSE {})))
    /\ UNCHANGED <<workload, available, jobs, circuits, results, mode, loop, history,
                   response, rejected>>

\* a write that only the synchronous branch performs
SaveWhenSync(j) ==
    /\ At(j, "save")
    /\ LET result_data == ResultData(jobs[j], frame.result[1]) IN
       IF frame.result[1].json
       THEN /\ results' = IF mode[j] = "sync"
                          THEN [results EXCEPT ![j] = Some(result_data)]
                          ELSE results
            /\ frame' = [frame EXCEPT !.ret = Some(result_data)]
            /\ pc' = [pc EXCEPT ![j] = "record_id"]
       ELSE /\ results' = [results EXCEPT ![j] = Some(PartialFile)]
            /\ frame' = [frame EXCEPT
                  !.exc = Some(<<"Object of type int64 is not JSON serializable">>)]
            /\ pc' = [pc EXCEPT ![j] = "fail"]
    /\ UNCHANGED <<workload, available, jobs, circuits, mode, loop, history, outcome,
                   response, rejected>>

\* lines 244-264: the success record is built and written
Save(j) ==
    /\ At(j, "save")
    /\ LET result_data == ResultData(jobs[j], frame.result[1]) IN
       IF frame.result[1].json
       THEN /\ results' = [results EXCEPT ![j] = Some(result_data)]
            /\ frame' = [frame EXCEPT !.ret = Some(result_data)]
            /\ pc' = [pc EXCEPT ![j] = "record_id"]
       ELSE /\ results' = [results EXCEPT ![j] = Some(PartialFile)]
            /\ frame' = [frame EXCEPT
                  !.exc = Some(<<"Object of type int64 is not JSON serializable">>)]
            /\ pc' = [pc EXCEPT ![j] = "fail"]
    /\ UNCHANGED <<workload, available, jobs, circuits, mode, loop, history, outcome,
                   response, rejected>>

\* lines 266-288
RecordId(j) ==
    /\ At(j, "record_id")
    /\ jobs' = [jobs EXCEPT ![j].provider_job_id =
                    StoredProviderJobId(jobs[j], frame.ret[1])]
    /\ pc' = [pc EXCEPT ![j] = "record_status"]
    /\ UNCHANGED <<workload, available, circuits, results, mode, loop, frame, history,
                   outcome, response, rejected>>

\* lines 279-292
RecordStatus(j) ==
    /\ At(j, "record_status")
    /\ jobs' = [jobs EXCEPT ![j].provider_job_status =
                    StoredProviderJobStatus(jobs[j], frame.ret[1])]
    /\ pc' = [pc EXCEPT ![j] = "complete"]
    /\ UNCHANGED <<workload, available, circuits, results, mode, loop, frame, history,
                   outcome, response, rejected>>

\* a return that leaves the status as it is
CompleteWithoutStatus(j) ==
    /\ At(j, "complete")
    /\ pc' = [pc EXCEPT ![j] = "return"]
    /\ UNCHANGED <<workload, available, jobs, circuits, results, mode, loop, frame,
                   history, outcome, response, rejected>>

\* a completion that marks the job submitted last, as a shared "current job"
\* would
CompleteLastSubmitted(j) ==
    /\ At(j, "complete")
    /\ LET last == Cardinality(Admitted) IN
       /\ jobs' = [jobs EXCEPT ![last] = SetStatus(@, COMPLETED)]
       /\ history' = [history EXCEPT ![last] = Append(@, COMPLETED)]
    /\ pc' = [pc EXCEPT ![j] = "return"]
    /\ UNCHANGED <<workload, available, circuits, results, mode, loop, frame, outcome,
                   response, rejected>>

\* a completion that writes a fresh record for the terminal status
CompleteWithFreshRecord(j) ==
    /\ At(j, "complete")
    /\ jobs' = [jobs EXCEPT ![j] =
                  SetStatus([@ EXCEPT !.provider_job_id = None], COMPLETED)]
    /\ history' = [history EXCEPT ![j] = Append(@, COMPLETED)]
    /\ pc' = [pc EXCEPT ![j] = "return"]
    /\ UNCHANGED <<workload, available, circuits, results, mode, loop, frame, outcome,
                   response, rejected>>

\* lines 294-297
Complete(j) ==
    /\ At(j, "complete")
    /\ jobs' = [jobs EXCEPT ![j] = SetStatus(@, COMPLETED)]
    /\ history' = [history EXCEPT ![j] = Append(@, COMPLETED)]
    /\ pc' = [pc EXCEPT ![j] = "return"]
    /\ UNCHANGED <<workload, available, circuits, results, mode, loop, frame, outcome,
                   response, rejected>>

\* a failure path that returns the error without persisting it
FailWithoutRecord(j) ==
    /\ At(j, "fail")
    /\ jobs' = [jobs EXCEPT ![j] = SetStatus(@, FAILED)]
    /\ history' = [history EXCEPT ![j] = Append(@, FAILED)]
    /\ frame' = [frame EXCEPT !.ret = Some(ErrorData(jobs[j], frame.exc[1]))]
    /\ pc' = [pc EXCEPT ![j] = "return"]
    /\ UNCHANGED <<workload, available, circuits, results, mode, loop, outcome,
                   response, rejected>>

\* lines 299-301
Fail(j) ==
    /\ At(j, "fail")
    /\ jobs' = [jobs EXCEPT ![j] = SetStatus(@, FAILED)]
    /\ history' = [history EXCEPT ![j] = Append(@, FAILED)]
    /\ pc' = [pc EXCEPT ![j] = "save_error"]
    /\ UNCHANGED <<workload, available, circuits, results, mode, loop, frame, outcome,
                   response, rejected>>

\* a failure path that keeps a result file that is already there
SaveErrorBesideExistingFile(j) ==
    /\ At(j, "save_error")
    /\ LET error_data == ErrorData(jobs[j], frame.exc[1]) IN
       /\ results' = IF results[j] = None
                     THEN [results EXCEPT ![j] = Some(error_data)]
                     ELSE results
       /\ frame' = [frame EXCEPT !.ret = Some(error_data)]
    /\ pc' = [pc EXCEPT ![j] = "return"]
    /\ UNCHANGED <<workload, available, jobs, circuits, mode, loop, history, outcome,
                   response, rejected>>

\* lines 303-324
SaveError(j) ==
    /\ At(j, "save_error")
    /\ LET error_data == ErrorData(jobs[j], frame.exc[1]) IN
       /\ results' = [results EXCEPT ![j] = Some(error_data)]
       /\ frame' = [frame EXCEPT !.ret = Some(error_data)]
    /\ pc' = [pc EXCEPT ![j] = "return"]
    /\ UNCHANGED <<workload, available, jobs, circuits, mode, loop, history, outcome,
                   response, rejected>>

\* _execute_circuit returns: the synchronous branch of execute_circuit
\* answers its caller (lines 139-166), a background task just ends
Return(j) ==
    /\ At(j, "return")
    /\ response' = IF mode[j] = "sync"
                   THEN [response EXCEPT ![j] = Some(SyncResponse(jobs[j], frame.ret[1]))]
                   ELSE response
    /\ pc' = [pc EXCEPT ![j] = "done"]
    /\ loop' = 0
    /\ frame' = EmptyFrame
    /\ UNCHANGED <<workload, available, jobs, circuits, results, mode, history, outcome,
                   rejected>>

Step(j) ==
    \/ StartBackground(j)
    \/ Start(j)
    \/ Execute(j)
    \/ ExecuteIbm(j)
    \/ IbmSubmit(j)
    \/ IbmPoll(j)
    \/ IbmFinal(j)
    \/ Save(j)
    \/ RecordId(j)
    \/ RecordStatus(j)
    \/ Complete(j)
    \/ Fail(j)
    \/ SaveError(j)
    \/ Return(j)

Capacity == IF workload = "single" THEN 1 ELSE MaxJobs
Offered == IF workload = "single" THEN Requests ELSE CommonRequests

\* a request is handled when the event loop is free; the clients stop
\* sending requests once Capacity of them were admitted
Arrival == loop = 0 /\ Cardinality(Admitted) < Capacity

Next ==
    \/ Arrival /\ \E request \in Offered : Reject(request)
    \/ Arrival /\ \E request \in Offered : Submit(request)
    \/ \E j \in 1..MaxJobs : Step(j)

Spec == Init /\ [][Next]_vars

\* the event loop runs every coroutine it holds and every background task
FairSpec == Spec /\ \A j \in 1..MaxJobs : WF_vars(Step(j))

(* ------------------------------------------------- the adapters on their own *)
\* The braket adapter called directly, as tests/services does, which is the
\* only way to reach shots = 0: execute_circuit refuses it.  outcome holds
\* the arguments and what run_braket_simulation and
\* execute_circuit_with_braket returned or raised.
DirectInit ==
    /\ workload = "direct"
    /\ available \in [SimulatorProvider -> BOOLEAN]
    /\ jobs = <<>>
    /\ circuits = <<>>
    /\ results = <<>>
    /\ mode = <<>>
    /\ pc = <<>>
    /\ loop = 0
    /\ frame = EmptyFrame
    /\ history = <<>>
    /\ outcome = <<>>
    /\ response = <<>>
    /\ rejected = None

DirectOutcomes(shots) ==
    IF shots > 0 THEN BraketOutcomes(shots) ELSE BraketProbabilityOutcomes

DirectCall(shots, env) ==
    /\ outcome' = [ shots    |-> shots,
                    env      |-> env,
                    backend  |-> run_braket_simulation(shots, env),
                    executor |-> execute_circuit_with_braket(EmptyDict, shots, env) ]
    /\ UNCHANGED <<workload, available, jobs, circuits, results, mode, pc, loop, frame,
                   history, response, rejected>>

DirectNext == \E shots \in 0..MaxShots : \E env \in DirectOutcomes(shots) :
                 DirectCall(shots, env)

DirectSpec == DirectInit /\ [][DirectNext]_vars

(* ------------------------------------------------------------- properties *)
\* _execute_circuit has returned for job j
Finished(j) == j \in Admitted /\ pc[j] = "done"

\* the adapter call made for job j, once it has been made
Called(j) == j \in Admitted /\ outcome[j] # None
CallOf(j) == outcome[j][1].call
TraceOf(j) == outcome[j][1].trace

\* C1: once a job's status is COMPLETED, FAILED or CANCELLED, no step of
\* execute_circuit or _execute_circuit, taken for this job or for any other
\* job, in either mode, changes that status.
TerminalStatusNeverChanges ==
    [][ \A j \in Admitted :
          jobs[j].status \in TerminalStatus =>
            j \in DOMAIN jobs' /\ jobs'[j].status = jobs[j].status ]_vars

\* a job that failed in a synchronous request, and a later asynchronous job
\* that ran to completion after it
TerminalStatusOutlivesLaterJob ==
    \E i, j \in Admitted :
        /\ i < j
        /\ mode[i] = "sync" /\ Finished(i) /\ jobs[i].status = FAILED
        /\ mode[j] = "async" /\ Finished(j) /\ jobs[j].status = COMPLETED

\* the persisted payload is a failure record carrying `message`
IsFailureRecord(payload, message) ==
    /\ "success" \in DOMAIN payload /\ ~payload["success"]
    /\ "error" \in DOMAIN payload /\ payload["error"] = message

\* the persisted payload is a success record
IsSuccessRecord(payload) ==
    /\ "success" \in DOMAIN payload /\ payload["success"]
    /\ "counts" \in DOMAIN payload

\* the caller of a synchronous request got a reply the handler built
WellFormedReply(j) ==
    /\ response[j] # None
    /\ response[j][1].status_code = 200
    /\ \/ /\ response[j][1].status = "success"
          /\ response[j][1].data # None
          /\ results[j] # None /\ IsSuccessRecord(results[j][1])
       \/ /\ response[j][1].status = "error"
          /\ response[j][1].error # None
          /\ results[j] # None
          /\ IsFailureRecord(results[j][1], response[j][1].error[1])

\* C2: whenever the adapter call made by _execute_circuit raises, the job
\* ends FAILED and a failure record with the error message is persisted and
\* returned; and every run of a validated job, on the success path as on the
\* failure path, hands the caller a well-formed result or failure record:
\* execute_circuit never raises to its caller.
EveryRunEndsInWellFormedRecord ==
    \A j \in Admitted :
        Finished(j) =>
            /\ CallOf(j).raised =>
                 /\ jobs[j].status = FAILED
                 /\ results[j] # None
                 /\ IsFailureRecord(results[j][1], CallOf(j).message)
            /\ mode[j] = "sync" => WellFormedReply(j)
            /\ mode[j] = "async" =>
                 /\ results[j] # None
                 /\ \/ IsSuccessRecord(results[j][1])
                    \/ "error" \in DOMAIN results[j][1]

\* the provider never reported a terminal status to the polling of the job:
\* the status sampled after the loop is not terminal, so the loop, which
\* ends at a terminal sample or at the deadline, ended at the deadline; nor
\* was the status terminal when the error message was built
NeverTerminal(trace) ==
    /\ trace.how = "polled"
    /\ ~IsTerminalSample(trace.final[1]) /\ ~IsDone(trace.final[1])
    /\ ~IsTerminalSample(trace.again[1])

\* text `t` contains the tokens of `sub` in a row
Mentions(t, sub) ==
    \E i \in 1..Len(t) :
        i + Len(sub) - 1 <= Len(t) /\ SubSeq(t, i, i + Len(sub) - 1) = sub

\* C3: a hardware job whose provider never reports DONE, ERROR or CANCELLED
\* before poll_timeout_seconds elapses ends with status FAILED, and its
\* recorded error message mentions the last observed provider status.
PollingTimeoutFailsTheJob ==
    \A j \in Admitted :
        (Finished(j) /\ NeverTerminal(TraceOf(j))) =>
            /\ jobs[j].status = FAILED
            /\ results[j] # None
            /\ "error" \in DOMAIN results[j][1]
            /\ Mentions(results[j][1]["error"], StatusText(TraceOf(j).again[1]))

\* C4: a valid synchronous request is answered only when its job is
\* COMPLETED or FAILED; a valid asynchronous request is answered with status
\* QUEUED while its job record is QUEUED and no adapter was invoked, and its
\* job later reaches COMPLETED or FAILED, the event loop running every
\* background task and every provider call returning or raising.
ModeDecidesWhenTheCallerIsAnswered ==
    /\ [][ \A j \in DOMAIN jobs' :
             /\ (j \notin Admitted /\ mode'[j] = "sync") => response'[j] = None
             /\ (mode'[j] = "sync" /\ response'[j] # None) =>
                    jobs'[j].status \in {COMPLETED, FAILED}
             /\ (j \notin Admitted /\ mode'[j] = "async") =>
                    /\ response'[j] # None
                    /\ response'[j][1].data # None
                    /\ response'[j][1].data[1].status = QUEUED
                    /\ jobs'[j].status = QUEUED
                    /\ outcome'[j] = None
                    /\ pc'[j] = "pending" ]_vars
    /\ \A j \in 1..MaxJobs :
          (j \in Admitted /\ mode[j] = "async")
             ~> (j \in Admitted /\ jobs[j].status \in {COMPLETED, FAILED})

\* a synchronous caller has its answer, and an asynchronous job admitted
\* before it has run to the end in the background
BothModesHaveRun ==
    \E i, j \in Admitted :
        /\ mode[i] = "async" /\ Finished(i) /\ jobs[i].status \in {COMPLETED, FAILED}
        /\ mode[j] = "sync" /\ response[j] # None

\* the request a job was created from
RequestOf(j) ==
    [ circuit_file     |-> circuits[j],
      shots            |-> jobs[j].shots,
      backend_type     |-> jobs[j].backend_type,
      backend_provider |-> jobs[j].backend_provider,
      backend_name     |-> jobs[j].backend_name,
      parameters       |-> jobs[j].parameters ]

\* whose identifier the job's provider_job_id is
IdKind(j) ==
    IF jobs[j].provider_job_id = None THEN "null"
    ELSE IF jobs[j].provider_job_id = Some(JobId(j)) THEN "own"
    ELSE IF jobs[j].provider_job_id = Some(ProviderJobId(j)) THEN "provider"
    ELSE "foreign"

\* a persisted payload without the identifiers that name the job
WithoutIds(payload) ==
    LET named == IF "metadata" \in DOMAIN payload
                 THEN [payload EXCEPT !["metadata"] =
                         ("job_id" :> "" @@ "circuit_file" :> "") @@ @]
                 ELSE payload
    IN  IF "counts" \in DOMAIN named
           /\ "provider_job_id" \in DOMAIN named["counts"].metadata
        THEN [named EXCEPT !["counts"].metadata = ("provider_job_id" :> "") @@ @]
        ELSE named

SameRun(i, j) ==
    /\ Finished(i) /\ Finished(j)
    /\ RequestOf(i) = RequestOf(j)
    /\ TraceOf(i) = TraceOf(j)

\* C5: for the same request and the same adapter outcome, the sequence of
\* status transitions, the final job record (status, provider_job_id,
\* provider_job_status) and the persisted payload are the same whether
\* async_mode is true or false.
ModeDoesNotChangeWhatIsRecorded ==
    \A i, j \in Admitted :
        (SameRun(i, j) /\ mode[i] # mode[j]) =>
            /\ history[i] = history[j]
            /\ jobs[i].status = jobs[j].status
            /\ IdKind(i) = IdKind(j)
            /\ jobs[i].provider_job_status = jobs[j].provider_job_status
            /\ (results[i] = None) = (results[j] = None)
            /\ results[i] # None => WithoutIds(results[i][1]) = WithoutIds(results[j][1])

\* the same hardware request met the same provider behaviour once in each
\* mode and both jobs completed
SameRunInBothModes ==
    \E i, j \in Admitted :
        /\ SameRun(i, j) /\ mode[i] = "sync" /\ mode[j] = "async"
        /\ jobs[i].backend_type = "hardware"
        /\ jobs[i].status = COMPLETED
        /\ results[j] # None

\* a counts value is a mapping from outcome label to number
IsCountsMapping(value) ==
    /\ value.kind = "mapping"
    /\ \A label \in DOMAIN value.counts : value.counts[label] \in Int

\* C6: every COMPLETED job has a persisted and returned result whose counts
\* field is a mapping from outcome label to number, for each of the six
\* (backend_type, backend_provider) pairs; no terminal job lacks its result
\* or error.
CompletedJobHasCountsMapping ==
    \A j \in Admitted :
        (loop # j /\ jobs[j].status \in TerminalStatus) =>
            /\ results[j] # None
            /\ IsSuccessRecord(results[j][1]) \/ "error" \in DOMAIN results[j][1]
            /\ jobs[j].status = COMPLETED =>
                 /\ IsSuccessRecord(results[j][1])
                 /\ IsCountsMapping(results[j][1]["counts"])
                 /\ mode[j] = "sync" =>
                        /\ response[j][1].data # None
                        /\ response[j][1].data[1].counts # None

\* a text is empty when it has no characters
TextIsEmpty(t) == \A i \in DOMAIN t : t[i] = ""

\* C7: every FAILED job has a persisted error payload whose error string is
\* non-empty.  (FAILED is set at line 301 and the payload written at lines
\* 320-322 without giving up the event loop in between.)
FailedJobHasErrorText ==
    \A j \in Admitted :
        (loop # j /\ jobs[j].status = FAILED) =>
            /\ results[j] # None
            /\ "error" \in DOMAIN results[j][1]
            /\ ~TextIsEmpty(results[j][1]["error"])

\* a job failed because its simulation backend raised an exception whose
\* message is empty
FailedOnEmptyMessage ==
    \E j \in Admitted :
        /\ Finished(j) /\ jobs[j].status = FAILED
        /\ TraceOf(j).how = "call" /\ TraceOf(j).env.kind = "raise"
        /\ TraceOf(j).env.message = <<>>

\* the provider accepted the submission made for the job
SubmissionSucceeded(trace) ==
    \/ trace.how \in {"submitted", "connection", "polled"}
    \/ trace.how = "call" /\ trace.env.kind \in {"full", "bare"}

\* C8: a job's provider_job_id is non-null only for a hardware job whose
\* submission to the provider succeeded, and then it is the identifier the
\* provider assigned; simulator jobs and jobs whose submission failed keep
\* provider_job_id null.
ProviderJobIdIsTheProvidersIdentifier ==
    \A j \in Admitted :
        (loop # j /\ jobs[j].provider_job_id # None) =>
            /\ jobs[j].backend_type = "hardware"
            /\ Called(j) /\ SubmissionSucceeded(TraceOf(j))
            /\ jobs[j].provider_job_id = Some(ProviderJobId(j))

\* C9: after a hardware job has been executed, the job record's
\* provider_job_status is the lifecycle label the provider reported, passed
\* through unchanged (here: the status the IBM runner sampled last before it
\* built its return value).
ProviderJobStatusIsTheProvidersLabel ==
    \A j \in Admitted :
        (Finished(j) /\ IsIbmJob(jobs[j]) /\ TraceOf(j).how = "polled") =>
            jobs[j].provider_job_status = Some(TraceOf(j).final[1].name)

\* C10: a hardware job submitted with wait_for_results = false never enters
\* the polling loop, gets a placeholder payload whose metadata has status
\* "QUEUED", and has the provider job identifier obtained at submission
\* recorded on the job (stated for the IBM adapter, unless the submission
\* itself was refused).
NotWaitingReturnsQueuedPlaceholder ==
    \A j \in Admitted :
        ( /\ Finished(j) /\ IsIbmJob(jobs[j])
          /\ ~Get(ParametersOf(jobs[j]), "wait_for_results", TRUE)
          /\ TraceOf(j).how \notin {"no_token", "failed"} ) =>
            /\ TraceOf(j).how \notin {"connection", "polled"}
            /\ results[j] # None
            /\ IsSuccessRecord(results[j][1])
            /\ results[j][1]["counts"].kind = "record"
            /\ Get(results[j][1]["counts"].metadata, "status", "") = "QUEUED"
            /\ jobs[j].provider_job_id = Some(ProviderJobId(j))

\* a step that answers a request with `detail` and does nothing else: no job
\* record, no circuit or result file, no adapter call, no response of a job
RejectsWith(details) ==
    (rejected' # rejected /\ rejected' \in details) =>
        UNCHANGED <<jobs, circuits, results, mode, pc, loop, frame, history,
                    outcome, response>>

ShotsDetail == Some(<<"Shots must be a positive integer">>)

\* C11: a request with shots <= 0 (zero or negative) is rejected as a
\* validation failure: it is never admitted, so no job record carries such a
\* shot count, and the step that answers it adds no job record, writes no
\* circuit file and invokes no adapter.
NonPositiveShotsAreRejected ==
    /\ [](Arrival => \A r \in Offered : r.shots <= 0 => Validate(r) # None)
    /\ [](\A j \in Admitted : jobs[j].shots > 0)
    /\ [][RejectsWith({ShotsDetail})]_vars

\* a request was refused for its shot count while the registry held a job,
\* and the job is as it was
ShotsRefusedBesideAJob ==
    /\ rejected = ShotsDetail
    /\ \E j \in Admitted : Finished(j) /\ results[j] # None

ProviderDetail(backend_type) ==
    Some(<<"Invalid backend provider for ", backend_type,
           ". Must be one of: ",
           IF backend_type = "simulator"
           THEN SimulatorProvider ELSE HardwareProvider>>)

ProviderMatchesType(backend_type, provider) ==
    IF backend_type = "simulator"
    THEN provider \in SimulatorProvider
    ELSE provider \in HardwareProvider

\* C12: a request whose backend_provider is outside the closed set of its
\* backend_type (a provider valid only for the other type included) is
\* rejected as a validation failure: no job is created for it and no adapter
\* is invoked.
ProviderOutsideItsTypeIsRejected ==
    /\ [](Arrival => \A r \in Offered :
            ~ProviderMatchesType(r.backend_type, r.backend_provider)
               => Validate(r) # None)
    /\ [](\A j \in Admitted :
            ProviderMatchesType(jobs[j].backend_type, jobs[j].backend_provider))
    /\ [][RejectsWith({ProviderDetail(t) : t \in BackendType})]_vars

\* a request was refused for its provider while the registry held a job
ProviderRefusedBesideAJob ==
    /\ rejected = ProviderDetail("simulator")
    /\ \E j \in Admitted : Finished(j) /\ results[j] # None

AvailabilityDetail(provider) == Some(<<provider, " backend is not available">>)

\* C13: a request whose provider is valid for its type but reports itself
\* unavailable is rejected as a validation failure: no job record is created
\* and no adapter is invoked.
UnavailableProviderIsRejected ==
    /\ [](Arrival => \A r \in Offered :
            (r.backend_provider \in SimulatorProvider
             /\ ~available[r.backend_provider]) => Validate(r) # None)
    /\ [](\A j \in Admitted :
            jobs[j].backend_provider \in SimulatorProvider
               => available[jobs[j].backend_provider])
    /\ [][RejectsWith({AvailabilityDetail(p) : p \in ProviderNames})]_vars

\* a request for a simulator that is not installed was refused, while another
\* simulator is installed
UnavailableSimulatorRefused ==
    \E p, q \in SimulatorProvider :
        /\ ~available[p] /\ available[q]
        /\ rejected = AvailabilityDetail(p)
        /\ jobs = <<>>

EmptyCircuitDetail == Some(<<"Empty circuit file provided">>)

\* C14: a request whose circuit source is missing, empty or only whitespace
\* is rejected with a client error before any job record is created, whatever
\* its other fields are: the circuit check comes before the shots, provider
\* and availability checks.
EmptyCircuitIsRejectedFirst ==
    /\ [](Arrival => \A r \in Offered :
            ( \/ r.circuit_file = None
              \/ \A i \in DOMAIN r.circuit_file[1] :
                    r.circuit_file[1][i] \in Whitespace )
               => Validate(r) = EmptyCircuitDetail)
    /\ [](\A j \in Admitted :
            \E i \in DOMAIN circuits[j] : circuits[j][i] \notin Whitespace)
    /\ [][RejectsWith({EmptyCircuitDetail})]_vars

\* a request without a circuit was refused while the registry held a job
EmptyCircuitRefusedBesideAJob ==
    /\ rejected = EmptyCircuitDetail
    /\ \E j \in Admitted : Finished(j) /\ results[j] # None

\* a result record is a success with counts and no error, or a failure with
\* an error and no counts
IsResultOrError(payload) ==
    /\ "success" \in DOMAIN payload
    /\ IF payload["success"]
       THEN "counts" \in DOMAIN payload /\ "error" \notin DOMAIN payload
       ELSE "error" \in DOMAIN payload /\ "counts" \notin DOMAIN payload

\* C15: every result record _execute_circuit produces (the value it returns
\* and the record it leaves in results/<job_id>.json) has success=true with a
\* counts field and no error field, or success=false with an error message
\* and no counts field; never both and never neither.
ResultRecordIsResultOrError ==
    /\ frame.ret # None => IsResultOrError(frame.ret[1])
    /\ \A j \in Admitted :
          (loop # j /\ results[j] # None) => IsResultOrError(results[j][1])

\* one job left a success record and another a failure record, the latter
\* after its success record could not be written
BothKindsOfRecordWritten ==
    \E i, j \in Admitted :
        /\ Finished(i) /\ results[i] # None /\ results[i][1]["success"]
        /\ Finished(j) /\ results[j] # None /\ ~results[j][1]["success"]
        /\ ~CallOf(j).raised

\* some accessor of the result object returns the counts c: the result's own
\* get_counts, its data.counts, or the get_counts of an attribute of the data
\* of one of its pub results
HasCountsAccessor(raw, c) ==
    \/ raw.get_counts = Some(GoodAccessor(c))
    \/ raw.data # None /\ raw.data[1].counts = Some(c)
    \/ /\ raw.pub_results # None
       /\ \E i \in DOMAIN raw.pub_results[1] :
            LET pub == raw.pub_results[1][i] IN
            /\ pub.data # None
            /\ \E n \in DOMAIN pub.data[1] :
                  pub.data[1][n].get_counts = Some(GoodAccessor(c))

\* the counts are reachable only through get_counts of one attribute of the
\* first pub result's data, under a name that is neither the declared
\* register nor one of the common names
OnlyUnderUndeclaredName(raw, c, cregs, name) ==
    /\ raw = RawResult(None, None,
                       Some(<<[data |-> Some(name :> [get_counts |-> Some(GoodAccessor(c))])]>>))
    /\ name \notin {"c", "meas", "measurement"}
    /\ cregs = <<>> \/ cregs[1] # name

\* job j is about to fetch its result from the provider
FetchingResult(j) == At(j, "ibm_final")

\* C16: a raw result whose counts accessor exists only under an attribute
\* name that is neither the declared register nor a common name is
\* normalized to those counts, not to the sentinel; and whenever a counts
\* accessor exists anywhere in the result object, normalization recovers
\* the counts.
NormalizationRecoversAnyAccessor ==
    \A j \in Admitted :
        FetchingResult(j) =>
            \A c \in SampleCounts(frame.runner[1].args.shots) :
            \A raw \in RawResults(c), cregs \in ClassicalRegisters :
                /\ (\E n \in RegisterNames : OnlyUnderUndeclaredName(raw, c, cregs, n))
                       => CountsOrSentinel(ExtractCounts(raw, cregs)) = c
                /\ HasCountsAccessor(raw, c)
                       => CountsOrSentinel(ExtractCounts(raw, cregs)) = c

\* the poll of job j ended DONE and no extraction strategy found counts
NoCountsExtracted(j) ==
    /\ Called(j)
    /\ TraceOf(j).how = "polled"
    /\ IsDone(TraceOf(j).final[1])
    /\ TraceOf(j).env.kind = "counts"
    /\ "error_extracting_counts" \in DOMAIN TraceOf(j).env.counts

\* C17: when no strategy produces counts from a DONE provider result the
\* normalizer does not raise: it returns a counts mapping whose only key is
\* error_extracting_counts, together with the job metadata including the
\* provider job id, and the job is not failed for that reason.
NoCountsYieldsSentinelNotFailure ==
    /\ \A j \in Admitted :
          FetchingResult(j) =>
            \A c \in SampleCounts(frame.runner[1].args.shots) :
            \A raw \in RawResults(c), cregs \in ClassicalRegisters :
                ExtractCounts(raw, cregs) = None =>
                    DOMAIN CountsOrSentinel(ExtractCounts(raw, cregs))
                        = {"error_extracting_counts"}
    /\ \A j \in Admitted :
          NoCountsExtracted(j) =>
            /\ ~CallOf(j).raised
            /\ DOMAIN CallOf(j).value[1].counts = {"error_extracting_counts"}
            /\ "provider_job_id" \in DOMAIN CallOf(j).value[1].metadata
            /\ CallOf(j).value[1].metadata["provider_job_id"] = ProviderJobId(j)
            /\ jobs[j].status # FAILED
            /\ Finished(j) => jobs[j].status = COMPLETED

\* a hardware job whose DONE result held no counts ended COMPLETED with the
\* sentinel in its result record
SentinelResultCompleted ==
    \E j \in Admitted :
        /\ NoCountsExtracted(j) /\ Finished(j)
        /\ jobs[j].status = COMPLETED
        /\ results[j] # None
        /\ results[j][1]["success"]

(* ------------------------------------------------------------ the routes *)
\* main.py 51 and 64, api.py 13-14, health.py 36, circuits.py 48: every
\* route the application registers; api.py 16 leaves job management out
Route(method, path, endpoint) ==
    [method |-> method, path |-> path, endpoint |-> endpoint]
Routes ==
    { Route("GET", "/", "root"),
      Route("GET", "/api/v1/health", "health_check"),
      Route("POST", "/api/v1/circuits/execute", "execute_circuit") }

\* the router's answer to a request: the endpoint of the matching route,
\* 405 when only the path matches, 404 when nothing matches
RouteRequest(method, path) ==
    IF \E r \in Routes : r.method = method /\ r.path = path
    THEN (CHOOSE r \in Routes : r.method = method /\ r.path = path).endpoint
    ELSE IF \E r \in Routes : r.path = path
    THEN "method_not_allowed"
    ELSE "not_found"

\* the paths a client can ask for the record of a job
JobPaths ==
    { "/api/v1/jobs/{job_id}", "/api/v1/circuits/{job_id}",
      "/api/v1/circuits/jobs/{job_id}", "/api/v1/circuits/execute/{job_id}" }

\* what a GET for a job's record is answered with: no registered endpoint
\* reads the job store or the results directory
StatusInquiry(job_id, path) ==
    [ found |-> RouteRequest("GET", path) \notin {"not_found", "method_not_allowed"},
      result |-> None ]

\* C18: for every terminal job the result obtained for its job id through
\* status inquiry is identical to the record written to
\* results/<job_id>.json at commit time; an unknown job id yields a
\* not-found signal.
StatusInquiryReturnsCommittedResult ==
    \A j \in 1..MaxJobs :
        IF j \in Admitted
        THEN (Finished(j) /\ results[j] # None) =>
                \E path \in JobPaths :
                    StatusInquiry(j, path) = [found |-> TRUE, result |-> results[j]]
        ELSE \A path \in JobPaths : ~StatusInquiry(j, path).found

\* the result file of job j holds a success record / an error record
ResultPersisted(j) == results[j] # None /\ "counts" \in DOMAIN results[j][1]
ErrorPersisted(j) == results[j] # None /\ "error" \in DOMAIN results[j][1]

\* the record of job j and its result file agree
WholeRecord(j) ==
    /\ jobs[j].status \in {QUEUED, RUNNING} =>
          /\ results[j] = None
          /\ jobs[j].provider_job_id = None
          /\ jobs[j].provider_job_status = None
    /\ jobs[j].status = COMPLETED => ResultPersisted(j)
    /\ jobs[j].status = FAILED => ErrorPersisted(j)

\* C19 as stated: status, provider fields and persisted result or error
\* change in one atomic step, so that no reachable state has the result
\* file written while the status is still RUNNING, or the status FAILED
\* while no error payload is persisted yet.
CommitIsOneAtomicStep ==
    \A j \in Admitted :
        /\ ~(results[j] # None /\ jobs[j].status = RUNNING)
        /\ ~(jobs[j].status = FAILED /\ ~ErrorPersisted(j))

\* C19 amended: the commit takes several steps (file, provider fields,
\* status), but the job holds the event loop through all of them: the
\* record of every job that does not hold the loop agrees with its result
\* file, and while a job holds the loop no request is handled and no other
\* task moves.
NoObserverSeesPartialCommit ==
    /\ [](\A j \in Admitted : loop # j => WholeRecord(j))
    /\ [][loop # 0 =>
            /\ loop' \in {loop, 0}
            /\ rejected' = rejected
            /\ DOMAIN jobs' = DOMAIN jobs
            /\ \A i \in Admitted \ {loop} :
                  /\ pc'[i] = pc[i]
                  /\ response'[i] = response[i]]_vars

\* a job has written its result file and is still RUNNING, or is FAILED
\* with its error not yet written, while a background task waits for the
\* event loop
PartialCommitBesideWaitingTask ==
    \E j \in Admitted :
        /\ loop = j
        /\ \/ results[j] # None /\ jobs[j].status = RUNNING
           \/ jobs[j].status = FAILED /\ ~ErrorPersisted(j)
        /\ \E i \in Admitted \ {j} : pc[i] = "pending"

\* C20: under any interleaving of concurrently submitted jobs, running job A
\* writes only A's record and A's result file: in every step the record,
\* the result file, the circuit file and the status history of every job
\* other than the one that holds the event loop stay as they are.
RunningJobWritesOnlyItsOwnRecord ==
    [][\A b \in Admitted :
          b # loop =>
            /\ jobs'[b] = jobs[b]
            /\ results'[b] = results[b]
            /\ circuits'[b] = circuits[b]
            /\ history'[b] = history[b]]_vars

\* the job submitted second ran to its end while the job submitted first
\* still waits, QUEUED and without a result file
LaterJobRanBesideUntouchedJob ==
    \E a, b \in Admitted :
        /\ b < a
        /\ Finished(a) /\ results[a] # None
        /\ pc[b] = "pending"
        /\ jobs[b].status = QUEUED
        /\ results[b] = None

InvokedFor(j) == outcome[j][1].invoked

\* the adapter that belongs to a valid (backend_type, backend_provider) pair
MatchingAdapter(backend_type, provider) ==
    IF backend_type = "simulator"
    THEN <<"execute_circuit_with_", provider>>
    ELSE <<"execute_circuit_with_", provider, "_hardware">>

\* C21: each valid (backend_type, backend_provider) pair invokes exactly the
\* one matching adapter and no other; a hardware adapter receives the job's
\* backend_name unchanged as the device name, and every adapter receives
\* the job's shots and circuit path unchanged.
EachPairInvokesItsAdapter ==
    /\ [](\A j \in Admitted :
            Called(j) =>
              /\ jobs[j].backend_provider \in
                    (IF jobs[j].backend_type = "simulator"
                     THEN SimulatorProvider ELSE HardwareProvider)
              /\ InvokedFor(j).adapter =
                    MatchingAdapter(jobs[j].backend_type, jobs[j].backend_provider)
              /\ InvokedFor(j).shots = RequestOf(j).shots
              /\ InvokedFor(j).circuit_path = CircuitPath(j)
              /\ jobs[j].backend_type = "hardware" =>
                    InvokedFor(j).device = RequestOf(j).backend_name)
    /\ [](\A j \in Admitted :
            (loop = j /\ frame.runner # None) =>
              /\ frame.runner[1].args.device_id = RequestOf(j).backend_name
              /\ frame.runner[1].args.shots = RequestOf(j).shots)
    /\ [][\A j \in Admitted :
            outcome[j] # None => outcome'[j] = outcome[j]]_vars

\* a hardware job that names a device had its adapter called with that
\* device
DevicePassedToHardwareAdapter ==
    \E j \in Admitted :
        /\ Called(j)
        /\ jobs[j].backend_type = "hardware"
        /\ jobs[j].backend_provider = "aws"
        /\ RequestOf(j).backend_name = Some("device")
        /\ InvokedFor(j).device = Some("device")

\* C22: every job record's registry key and job_id field are equal, distinct
\* from every other job's, and never change after creation; no operation
\* removes a job from the registry, so the set of job ids only grows.
JobIdsAreUniqueAndPermanent ==
    /\ [](\A j \in Admitted : jobs[j].job_id = JobId(j))
    /\ [](\A i, j \in Admitted : i # j => jobs[i].job_id # jobs[j].job_id)
    /\ [][/\ Admitted \subseteq DOMAIN jobs'
          /\ \A j \in Admitted : jobs'[j].job_id = jobs[j].job_id]_vars

\* two jobs were admitted and both ran to their end under their own ids
TwoJobsKeptTheirIds ==
    /\ Cardinality(Admitted) = 2
    /\ \A j \in Admitted : Finished(j) /\ jobs[j].job_id = JobId(j)
    /\ \E i, j \in Admitted : jobs[i].job_id # jobs[j].job_id

\* C23: once a job's provider_job_id is non-null, no later step of any
\* operation changes it.
ProviderJobIdIsNeverOverwritten ==
    [][\A j \in Admitted :
          jobs[j].provider_job_id # None =>
              jobs'[j].provider_job_id = jobs[j].provider_job_id]_vars

\* a job whose provider_job_id was set has since completed and returned,
\* and a later job has run beside it
ProviderJobIdOutlivedLaterSteps ==
    \E i, j \in Admitted :
        /\ i # j
        /\ Finished(i) /\ jobs[i].provider_job_id # None
        /\ jobs[i].status = COMPLETED
        /\ Finished(j)

\* C24: for a single job the transitions are strictly ordered: every job
\* that reaches COMPLETED or FAILED was first QUEUED and then RUNNING; no
\* job goes from QUEUED directly to a terminal status and none returns to
\* QUEUED or RUNNING.
StatusTransitionsAreOrdered ==
    /\ [](\A j \in Admitted :
            /\ history[j] \in { <<QUEUED>>, <<QUEUED, RUNNING>>,
                                <<QUEUED, RUNNING, COMPLETED>>,
                                <<QUEUED, RUNNING, FAILED>> }
            /\ jobs[j].status = history[j][Len(history[j])])
    /\ [][\A j \in Admitted :
            jobs'[j].status # jobs[j].status =>
              \/ jobs[j].status = QUEUED /\ jobs'[j].status = RUNNING
              \/ jobs[j].status = RUNNING /\ jobs'[j].status \in {COMPLETED, FAILED}]_vars

\* one job went QUEUED, RUNNING, COMPLETED and another QUEUED, RUNNING,
\* FAILED
BothOrderedPathsTaken ==
    \E i, j \in Admitted :
        /\ history[i] = <<QUEUED, RUNNING, COMPLETED>>
        /\ history[j] = <<QUEUED, RUNNING, FAILED>>

\* C25: the core has no cancellation path: no operation ever sets a job's
\* status to CANCELLED, and when the polling timeout elapses the runner
\* never issues a cancel to the remote provider job.
NoCancellationPath ==
    /\ \A j \in Admitted :
          /\ jobs[j].status # CANCELLED
          /\ \A i \in DOMAIN history[j] : history[j][i] # CANCELLED
          /\ Called(j) => TraceOf(j).remote \subseteq {"run", "status", "result"}
    /\ frame.runner # None =>
          frame.runner[1].remote \subseteq {"run", "status"}

\* the polling of a hardware job timed out with the provider job still
\* RUNNING, and the job has ended with only the submission and status
\* samples issued to the provider
TimedOutWithoutCancel ==
    \E j \in Admitted :
        /\ Finished(j)
        /\ TraceOf(j).how = "polled"
        /\ ~IsTerminalSample(TraceOf(j).final[1])
        /\ ~IsTerminalSample(TraceOf(j).again[1])
        /\ TraceOf(j).remote = {"run", "status"}
        /\ jobs[j].status # CANCELLED

\* provider names a caller can ask about: the known ones and others
AskedProviders == ProviderNames \cup {"invalid_provider", "IBM", ""}

\* C26: check_provider_availability returns true for each of aws, ibm and
\* google regardless of environment, false for every name outside {qiskit,
\* cirq, braket, aws, ibm, google}, and for a simulator name exactly that
\* simulator's import-availability flag.
AvailabilityFollowsProviderKind ==
    \A p \in AskedProviders :
        /\ p \in {"aws", "ibm", "google"} => check_provider_availability(p)
        /\ p \notin {"qiskit", "cirq", "braket", "aws", "ibm", "google"} =>
              ~check_provider_availability(p)
        /\ p \in {"qiskit", "cirq", "braket"} =>
              check_provider_availability(p) = available[p]

\* an IBM hardware job was admitted by a process without any simulator
\* installed
HardwareAdmittedWithoutSimulators ==
    /\ \A p \in SimulatorProvider : ~available[p]
    /\ \E j \in Admitted :
          jobs[j].backend_type = "hardware" /\ jobs[j].backend_provider = "ibm"

\* the backend of simulator job j could not parse or run the circuit: it
\* raised or returned None
BackendGaveNoResult(j) ==
    /\ Called(j)
    /\ jobs[j].backend_type = "simulator"
    /\ TraceOf(j).how = "call"
    /\ IF jobs[j].backend_provider = "braket"
       THEN TraceOf(j).env.kind \in
              {"import_error", "file_not_found", "qasm3", "parse_error", "sdk_error"}
       ELSE TraceOf(j).env.kind \in {"raise", "none"}

\* C27: for each of the three simulator executors, when the backend cannot
\* parse or run the circuit, whether it raises or returns None, the executor
\* raises to its caller instead of returning counts, so such a job ends
\* FAILED and never COMPLETED.
SimulatorFailureRaises ==
    \A j \in Admitted :
        BackendGaveNoResult(j) =>
            /\ CallOf(j).raised
            /\ CallOf(j).value = None
            /\ \A i \in DOMAIN history[j] : history[j][i] # COMPLETED
            /\ Finished(j) => jobs[j].status = FAILED /\ ErrorPersisted(j)

\* a braket job whose backend returned None and a qiskit or cirq job whose
\* backend raised have both ended FAILED
NoneAndRaiseBothFailed ==
    \E i, j \in Admitted :
        /\ BackendGaveNoResult(i) /\ Finished(i)
        /\ jobs[i].backend_provider = "braket"
        /\ TraceOf(i).env.kind = "parse_error"
        /\ BackendGaveNoResult(j) /\ Finished(j)
        /\ jobs[j].backend_provider \in {"qiskit", "cirq"}
        /\ TraceOf(j).env.kind = "raise"
        /\ jobs[i].status = FAILED /\ jobs[j].status = FAILED

\* the two shapes of a synchronous reply
IsSuccessReply(reply, j) ==
    /\ reply.status = "success"
    /\ reply.error = None
    /\ reply.data # None
    /\ reply.data[1].status = COMPLETED
    /\ reply.data[1].counts # None
    /\ reply.data[1].execution_time = Duration
    /\ reply.data[1].metadata.backend_type = RequestOf(j).backend_type
    /\ reply.data[1].metadata.backend_provider = RequestOf(j).backend_provider
    /\ reply.data[1].metadata.shots = RequestOf(j).shots
IsErrorReply(reply) ==
    /\ reply.status = "error"
    /\ reply.data = None
    /\ reply.error # None

\* C28: for every validated synchronous request the response is one of two
\* shapes: status "success" with error null and data holding job status
\* COMPLETED, counts, execution_time and metadata that echoes the request's
\* backend_type, backend_provider and shots; or status "error" with data
\* null and a non-null error string.  The success shape is returned
\* exactly when the job ended COMPLETED.
SyncReplyIsSuccessOrError ==
    \A j \in Admitted :
        (mode[j] = "sync" /\ response[j] # None) =>
            /\ IsSuccessReply(response[j][1], j) \/ IsErrorReply(response[j][1])
            /\ IsSuccessReply(response[j][1], j) <=> jobs[j].status = COMPLETED

\* sum(counts.values())
RECURSIVE SumOfValues(_)
SumOfValues(counts) ==
    IF DOMAIN counts = {} THEN 0
    ELSE LET k == CHOOSE k \in DOMAIN counts : TRUE
         IN  counts[k] + SumOfValues([x \in DOMAIN counts \ {k} |-> counts[x]])

\* the counts the backend of simulator job j reported
BackendCounts(j) ==
    IF jobs[j].backend_provider = "braket"
    THEN TraceOf(j).env.raw_counts ELSE TraceOf(j).env.counts

\* C29: for every simulator execution with shots = N > 0, the values of the
\* counts mapping returned by the executor sum to N; the executor passes
\* the backend's counts through without dropping, merging or rescaling
\* entries.
SimulatorCountsSumToShots ==
    \A j \in Admitted :
        (Called(j) /\ jobs[j].backend_type = "simulator" /\ ~CallOf(j).raised) =>
            /\ jobs[j].shots > 0
            /\ CallOf(j).value[1].kind = "mapping"
            /\ CallOf(j).value[1].counts = BackendCounts(j)
            /\ SumOfValues(CallOf(j).value[1].counts) = jobs[j].shots

\* a simulator run of two shots returned two outcomes, one sample each
TwoOutcomesSumToTwoShots ==
    \E j \in Admitted :
        /\ Called(j) /\ jobs[j].backend_type = "simulator" /\ ~CallOf(j).raised
        /\ jobs[j].shots = 2
        /\ DOMAIN CallOf(j).value[1].counts = {"0", "1"}
        /\ SumOfValues(CallOf(j).value[1].counts) = 2

\* the width-n bit strings in ascending order: index i + 1 holds the binary
\* numeral of i, padded with zeros to n digits
RECURSIVE BitStrings(_)
BitStrings(n) ==
    IF n = 0 THEN <<"">>
    ELSE [i \in 1..(2 * Len(BitStrings(n - 1))) |->
            IF i <= Len(BitStrings(n - 1))
            THEN "0" \o BitStrings(n - 1)[i]
            ELSE "1" \o BitStrings(n - 1)[i - Len(BitStrings(n - 1))]]

\* a direct call asked for probabilities and the simulator reported them
ProbabilitiesReturned ==
    /\ DOMAIN outcome # {}
    /\ outcome.shots = 0
    /\ outcome.env.kind = "ok"
    /\ outcome.env.probabilities # <<>>

\* C30: in probability mode (shots = 0 on the braket adapter) the returned
\* mapping has exactly one entry per index i of the probability vector,
\* keyed by the binary representation of i zero-padded to the qubit count;
\* keys are pairwise distinct and all of that width, each value is the
\* backend's probability unchanged, and the metadata carries result_type =
\* "probabilities", which is absent when counts are sampled.
ProbabilityModeKeysAndMarker ==
    /\ ProbabilitiesReturned =>
          LET sim == outcome.backend.value[1][1]
              probabilities == outcome.env.probabilities
              width == outcome.env.num_qubits
          IN  /\ ~outcome.backend.raised
              /\ Cardinality(DOMAIN sim.counts) = Len(probabilities)
              /\ \A k \in DOMAIN sim.counts : Len(k) = width
              /\ \A i \in DOMAIN probabilities :
                    /\ BitStrings(width)[i] \in DOMAIN sim.counts
                    /\ sim.counts[BitStrings(width)[i]] = probabilities[i]
              /\ "result_type" \in DOMAIN sim.metadata
              /\ sim.metadata["result_type"] = "probabilities"
              /\ available["braket"] =>
                    /\ ~outcome.executor.raised
                    /\ outcome.executor.value[1].counts = sim.counts
    /\ (DOMAIN outcome # {} /\ outcome.shots > 0 /\ outcome.env.kind = "ok") =>
          "result_type" \notin DOMAIN outcome.backend.value[1][1].metadata

\* the probabilities of a two-qubit circuit came back under four keys
TwoQubitProbabilitiesReturned ==
    /\ ProbabilitiesReturned
    /\ outcome.env.num_qubits = 2
    /\ DOMAIN outcome.backend.value[1][1].counts = {"00", "01", "10", "11"}
    /\ outcome.backend.value[1][1].counts["01"] = outcome.env.probabilities[2]
    /\ outcome.backend.value[1][1].counts["10"] = outcome.env.probabilities[3]

\* the task of job j is between two status samples of its polling loop
\* (time.sleep, line 253)
SleepsBetweenSamples(j) ==
    /\ At(j, "ibm_poll")
    /\ frame.runner[1].polls > 0
    /\ frame.runner[1].elapsed < frame.runner[1].args.poll_timeout_seconds

\* C31: different jobs execute independently: while one job is RUNNING,
\* also while a hardware job sleeps between status samples, another job can
\* be admitted and a waiting job can become RUNNING; no global lock
\* serializes jobs.
RunningJobDoesNotHoldOthersBack ==
    \A j \in Admitted :
        (jobs[j].status = RUNNING \/ SleepsBetweenSamples(j)) =>
            /\ Cardinality(Admitted) < Capacity =>
                  ENABLED (Arrival /\ \E request \in Offered : Submit(request))
            /\ \A i \in Admitted \ {j} :
                  pc[i] = "pending" => ENABLED StartBackground(i)

TaggedCounts(name) == "0" :> (CHOOSE i \in DOMAIN DirOrder : DirOrder[i] = name)

\* every pub_result.data over the names of DirOrder: each attribute is
\* absent, has no get_counts, or has one that raises, returns None or
\* returns its own counts
AccessorKinds == {"none", "raises", "empty", "counts"}
TaggedData ==
    UNION { { [ n \in names |->
                  [get_counts |->
                      CASE kind[n] = "none"   -> None
                        [] kind[n] = "raises" -> Some(Accessor(TRUE, None))
                        [] kind[n] = "empty"  -> Some(Accessor(FALSE, None))
                        [] kind[n] = "counts" -> Some(GoodAccessor(TaggedCounts(n)))] ] :
              kind \in [names -> AccessorKinds] } :
            names \in SUBSET RegisterNames }

\* the names in the order the claim gives: the declared register or 'c',
\* the common names not tried yet, the public attributes as listed
AttemptOrder(data, cregs) ==
    LET declared == IF cregs # <<>> THEN cregs[1] ELSE "c" IN
    <<declared>> \o
    SelectSeq(<<"c", "meas", "measurement">>, LAMBDA n : n # declared) \o
    SelectSeq(DirOrder, LAMBDA n : n \in DOMAIN data /\ ~StartsWithUnderscore(n))

\* the counts of the first name of `order` whose attempt yields counts
FirstSuccess(data, order) ==
    LET hits == { i \in DOMAIN order : attempt_extraction(data, order[i]) # None } IN
    IF hits = {} THEN None
    ELSE attempt_extraction(
             data, order[CHOOSE i \in hits : \A k \in hits : i <= k])

ExtractionFollowsAttemptOrder ==
    \A data \in TaggedData, cregs \in ClassicalRegisters :
        /\ ExtractFromPubResults(<<[data |-> Some(data)]>>, cregs)
              = FirstSuccess(data, AttemptOrder(data, cregs))
        /\ \A other \in {[data |-> None],
                         [data |-> Some("c" :> [get_counts |->
                                          Some(GoodAccessor("1" :> 1))])]} :
              ExtractFromPubResults(<<[data |-> Some(data)], other>>, cregs)
                 = ExtractFromPubResults(<<[data |-> Some(data)]>>, cregs)

\* C33: for the per-submission result shape, extraction tries the first
\* declared classical register name (or 'c' when none is declared), then
\* each of 'c', 'meas', 'measurement' not tried yet, then every public
\* attribute of the first sub-result's data in listing order; it stops at
\* the first success, a later step is tried only when every earlier one
\* yielded nothing, and only the first sub-result is used.
PerSubmissionExtractionOrder ==
    \A j \in Admitted : FetchingResult(j) => ExtractionFollowsAttemptOrder

\* a per-submission result whose counts are found only by the listing of
\* the attributes
FoundOnlyByListing(raw, cregs) ==
    /\ raw.get_counts = None /\ raw.data = None
    /\ raw.pub_results # None /\ raw.pub_results[1] # <<>>
    /\ raw.pub_results[1][1].data # None
    /\ LET data == raw.pub_results[1][1].data[1]
           declared == IF cregs # <<>> THEN cregs[1] ELSE "c"
       IN  /\ \A n \in {declared, "c", "meas", "measurement"} :
                 attempt_extraction(data, n) = None
           /\ attempt_extraction(data, "out") # None

\* a DONE hardware job completed with the counts that the listing of the
\* attributes found in a per-submission result
CountsFoundByListingCompleted ==
    \E j \in Admitted :
        /\ Finished(j) /\ jobs[j].status = COMPLETED
        /\ TraceOf(j).how = "polled" /\ IsDone(TraceOf(j).final[1])
        /\ TraceOf(j).env.kind = "counts"
        /\ \E c \in SampleCounts(jobs[j].shots) :
           \E raw \in RawResults(c), cregs \in ClassicalRegisters :
              /\ FoundOnlyByListing(raw, cregs)
              /\ CountsOrSentinel(ExtractCounts(raw, cregs)) = TraceOf(j).env.counts
              /\ TraceOf(j).env.counts = c

Sentinel == "error_extracting_counts" :> 1

\* the selected shape of a raw result yields nothing while a later shape
\* holds counts
SelectedShapeFailsBeforeCounts(raw) ==
    \/ /\ raw.get_counts # None
       /\ raw.get_counts[1].raises \/ raw.get_counts[1].value = None
       /\ \/ raw.data # None /\ raw.data[1].counts # None
          \/ raw.pub_results # None /\ raw.pub_results[1] # <<>>
    \/ /\ raw.get_counts = None
       /\ raw.data # None /\ raw.data[1].counts = None
       /\ raw.pub_results # None /\ raw.pub_results[1] # <<>>
       /\ raw.pub_results[1][1].data # None
       /\ \E n \in DOMAIN raw.pub_results[1][1].data[1] :
             attempt_extraction(raw.pub_results[1][1].data[1], n) # None

\* C34: the three top-level result shapes are selected in fixed order by
\* what the raw result exposes (get_counts, else data, else a non-empty
\* _pub_results) and exactly one is attempted: the outcome depends on the
\* selected shape alone, and when that shape fails or yields nothing no
\* later shape is tried and the sentinel error_extracting_counts is returned.
OneShapeIsAttempted ==
    \A j \in Admitted :
        FetchingResult(j) =>
            \A c \in SampleCounts(frame.runner[1].args.shots) :
            \A raw \in RawResults(c), cregs \in ClassicalRegisters :
                LET counts == CountsOrSentinel(ExtractCounts(raw, cregs)) IN
                IF raw.get_counts # None
                THEN counts = IF raw.get_counts[1] = GoodAccessor(c) THEN c ELSE Sentinel
                ELSE IF raw.data # None
                THEN counts = IF raw.data[1].counts = Some(c) THEN c ELSE Sentinel
                ELSE IF raw.pub_results # None /\ raw.pub_results[1] # <<>>
                THEN counts = CountsOrSentinel(
                                 ExtractFromPubResults(raw.pub_results[1], cregs))
                ELSE counts = Sentinel

\* a DONE hardware job completed with the sentinel that a result yields
\* whose selected shape failed although a later shape held the counts
SentinelDespiteLaterShape ==
    \E j \in Admitted :
        /\ Finished(j) /\ jobs[j].status = COMPLETED
        /\ TraceOf(j).how = "polled" /\ IsDone(TraceOf(j).final[1])
        /\ TraceOf(j).env.kind = "counts"
        /\ TraceOf(j).env.counts = Sentinel
        /\ \E c \in SampleCounts(jobs[j].shots) :
           \E raw \in RawResults(c), cregs \in ClassicalRegisters :
              /\ SelectedShapeFailsBeforeCounts(raw)
              /\ CountsOrSentinel(ExtractCounts(raw, cregs)) = TraceOf(j).env.counts

\* the status is the enum member DONE, or a string equal to DONE ignoring
\* case
DoneIgnoringCase(st) ==
    \/ st.kind = "enum" /\ st.name = "DONE"
    \/ st.kind = "str" /\ st.name \in {"DONE", "done"}

IbmOptionKeys ==
    {"wait_for_results", "poll_timeout_seconds", "optimization_level", "api_token"}

\* C36: for an IBM hardware job the runner receives wait_for_results,
\* poll_timeout_seconds, optimization_level and api_token as the parameter
\* bag gives them, and TRUE, 3600, 1 and None for the keys the bag does not
\* give; supplying any of these keys does not by itself make the job fail.
IbmOptionsReachTheRunner ==
    \A j \in Admitted :
        IsIbmJob(jobs[j]) =>
            LET given == ParametersOf(jobs[j]) IN
            /\ (loop = j /\ frame.runner # None) =>
                  LET args == frame.runner[1].args IN
                  /\ args.wait_for_results = Get(given, "wait_for_results", TRUE)
                  /\ args.poll_timeout_seconds =
                        Get(given, "poll_timeout_seconds", DefaultPollTimeout)
                  /\ args.optimization_level =
                        Get(given, "optimization_level", DefaultOptimizationLevel)
                  /\ args.api_token = Get(given, "api_token", None)
            /\ (Called(j) /\ DOMAIN given \cap IbmOptionKeys # {}) =>
                  /\ TraceOf(j).how # "type_error"
                  /\ ~CallOf(j).raised
            /\ (Finished(j) /\ DOMAIN given \cap IbmOptionKeys # {}
                  /\ TraceOf(j).how = "type_error") => jobs[j].status # FAILED

\* the validity table of (backend_type, backend_provider)
ValidPairs ==
    ({"simulator"} \X {"qiskit", "braket", "cirq"}) \cup
    ({"hardware"} \X {"aws", "ibm", "google"})

\* C37: every job record in the registry has shots > 0, a non-empty circuit
\* and a (backend_type, backend_provider) pair of the validity table; so
\* _execute_circuit never takes an 'Unsupported ...' branch and never
\* invokes an adapter with shots <= 0, and the probability branch of the
\* braket adapter is not reached from a submitted job.
EveryJobRecordIsValid ==
    \A j \in DOMAIN jobs :
        /\ jobs[j].shots > 0
        /\ circuits[j] # <<>>
        /\ \E i \in DOMAIN circuits[j] : circuits[j][i] \notin {" ", "\n"}
        /\ <<jobs[j].backend_type, jobs[j].backend_provider>> \in ValidPairs
        /\ Invocation(jobs[j]).adapter # <<"none">>
        /\ Called(j) =>
              /\ InvokedFor(j).adapter # <<"none">>
              /\ InvokedFor(j).message = <<>>
              /\ InvokedFor(j).shots > 0
              /\ \A i \in DOMAIN CallOf(j).message :
                    CallOf(j).message[i] \notin
                        {"Unsupported simulator provider: ",
                         "Unsupported hardware provider: ",
                         "Unsupported backend type: "}
              /\ (jobs[j].backend_provider = "braket" /\ TraceOf(j).how = "call") =>
                    LET sim == run_braket_simulation(InvokedFor(j).shots, TraceOf(j).env)
                    IN  (~sim.raised /\ sim.value[1] # None) =>
                            "result_type" \notin DOMAIN sim.value[1][1].metadata

\* a braket job and a hardware job have both been run with the positive
\* shot counts of their records
BraketAndHardwareRunWithPositiveShots ==
    \E i, j \in Admitted :
        /\ Finished(i) /\ jobs[i].backend_provider = "braket"
        /\ TraceOf(i).env.kind = "ok"
        /\ InvokedFor(i).shots = jobs[i].shots /\ jobs[i].shots > 0
        /\ Finished(j) /\ jobs[j].backend_type = "hardware"
        /\ InvokedFor(j).shots = jobs[j].shots /\ jobs[j].shots > 0

\* C38: whenever _execute_circuit has returned for a job, the job's result
\* file holds exactly the record that was returned, with success true if
\* and only if the job is COMPLETED and success false if and only if it is
\* FAILED; also when the writing of the success record failed part-way,
\* the job then being FAILED and the error record having replaced the
\* partial file.
ResultFileHoldsTheReturnedRecord ==
    /\ [][ \A j \in Admitted :
             /\ (At(j, "return") /\ pc'[j] = "done") =>
                   /\ frame.ret # None
                   /\ results'[j] = frame.ret
             /\ Finished(j) => results'[j] = results[j] ]_vars
    /\ [](\A j \in Admitted :
             Finished(j) =>
                /\ results[j] # None
                /\ results[j][1] # PartialFile
                /\ "success" \in DOMAIN results[j][1]
                /\ results[j][1]["success"] <=> jobs[j].status = COMPLETED
                /\ ~results[j][1]["success"] <=> jobs[j].status = FAILED)

\* a job whose adapter returned counts that json.dump could not encode has
\* returned: it is FAILED and its file holds the error record
ErrorRecordReplacedPartialFile ==
    \E j \in Admitted :
        /\ Finished(j)
        /\ ~CallOf(j).raised
        /\ ~CallOf(j).value[1].json
        /\ jobs[j].status = FAILED
        /\ results[j] # None
        /\ IsFailureRecord(results[j][1],
                           <<"Object of type int64 is not JSON serializable">>)

====
